---- MODULE Spec2Model ----
(***************************************************************************)
(* Planet imagery browser: tide table loading, tide lookup, sort by tide   *)
(* and preview mosaic assembly, modelled from the three front-ends         *)
(*   app    = src/planet_imagery_browser_app/planet_imagery_browser.py     *)
(*   web    = src/planet_imagery_browser_app/                              *)
(*            planet_imagery_browser_streamlit.py                          *)
(*   legacy = src/planet_imagery_browser.py                                *)
(***************************************************************************)
EXTENDS Integers, Sequences, FiniteSets, TLC

VARIABLES
    variant,          \* which front-end this run is: "app", "web", "legacy"
    tide_data,        \* self.tide_data / st.session_state.tide_data (dict)
    tide_file_loaded, \* self.tide_file_loaded (name of last installed file)
    sort_tide_btn,    \* state of the Sort-by-tide button
    results,          \* self.results / st.session_state.results
    ui,               \* last message shown to the user
    tide_before,      \* history: the table in place before the last load
    last_file,        \* history: the file handed to the last load
    last_count,       \* history: line_count reported by the last load
    lookup_id,        \* history: id of the last lookup in the current table
    lookup_result,    \* history: result of that lookup
    results_before,   \* history: the result list the last sort was given
    searching,        \* the Search button is disabled ('Searching...')
    aoi_bounds,       \* self.aoi_bounds / st.session_state.aoi_bounds
    search_log,       \* history: the state a search started from and ended in
    order_request,    \* the last order request sent, with the preview it was made at
    grid_size_var,    \* grid size chosen in the Grid Size box
    preview_mode,     \* self.preview_mode: "aoi" or "full"
    current_preview_index,   \* self.current_preview_index (from 0)
    current_preview_image,   \* self.current_preview_image
    current_preview_bounds,  \* self.current_preview_bounds
    preview_info_label,      \* text under the preview
    preview_threads,  \* the _load_preview_thread threads that are running
    after_queue,      \* callbacks handed to root.after(0, ...), in order
    saved,            \* the last GeoTIFF written or offered for download
    last_loaded,      \* history: what the last preview load of the web app came to
    tile_server,      \* how the tile server answers the requests of a preview
    validation,       \* results of main() of validate_app.py: (name, passed)
    tile_math,        \* history: the last tile taken to lat/lon and back
    results_tree,     \* the rows of the results table (item ids, in order)
    search_threads,   \* the _search_thread threads that are running
    exposure_status,  \* self.exposure_status of the legacy browser (dict)
    download_btn,     \* state of the Download button
    order_threads,    \* the _order_and_download_thread threads that are running
    since_reset,      \* history: Reset was used and no search started since
    order_log         \* history: polls and callbacks of every order started

previewVars == <<tile_server, grid_size_var, preview_mode, current_preview_index,
                 current_preview_image, current_preview_bounds,
                 preview_info_label, preview_threads, after_queue, saved,
                 last_loaded>>

\* the variables of the validation script and of the tile conversions
restVars == <<validation, tile_math>>

\* the table, the threads and the buttons of the desktop window
deskVars == <<results_tree, search_threads, exposure_status, download_btn,
              order_threads, since_reset, order_log>>

searchVars == <<searching, aoi_bounds, search_log, order_request>>

vars == <<variant, tide_data, tide_file_loaded, sort_tide_btn, results, ui,
          tide_before, last_file, last_count, lookup_id, lookup_result,
          results_before, searching, aoi_bounds, search_log, order_request,
          grid_size_var,
          preview_mode,
          current_preview_index, current_preview_image,
          current_preview_bounds, preview_info_label, preview_threads,
          after_queue, saved, last_loaded, tile_server, validation,
          tile_math, results_tree, search_threads, exposure_status,
          download_btn, order_threads, since_reset, order_log>>

(***************************************************************************)
(* Python values.  None is the empty tuple and a value x is <<x>>, so an   *)
(* optional result is always a tuple.  A dict is a function whose DOMAIN   *)
(* is its key set.  Heights are integers (centimetres); the float NaN is   *)
(* the one value that is neither less than, greater than nor equal to      *)
(* any height.                                                             *)
(***************************************************************************)
None == <<>>

Some(x) == <<x>>

EmptyDict == <<>>

NaN == -9999

DictPut(d, k, v) == [x \in (DOMAIN d) \cup {k} |-> IF x = k THEN v ELSE d[x]]

Min2(a, b) == IF a < b THEN a ELSE b

\* s[a:b] of a Python string held as a tuple of one-character strings
PySlice(s, a, b) == SubSeq(s, a + 1, Min2(b, Len(s)))

Digits == {"0", "1", "2", "3", "4", "5", "6", "7", "8", "9"}

DigitVal(c) ==
    CASE c = "0" -> 0 [] c = "1" -> 1 [] c = "2" -> 2 [] c = "3" -> 3
      [] c = "4" -> 4 [] c = "5" -> 5 [] c = "6" -> 6 [] c = "7" -> 7
      [] c = "8" -> 8 [] c = "9" -> 9

RECURSIVE DigitsValue(_)
DigitsValue(s) ==
    IF Len(s) = 0 THEN 0
    ELSE 10 * DigitsValue(SubSeq(s, 1, Len(s) - 1)) + DigitVal(s[Len(s)])

RECURSIVE LStripSpace(_)
LStripSpace(s) ==
    IF Len(s) > 0 /\ s[1] = " " THEN LStripSpace(Tail(s)) ELSE s

RECURSIVE RStripSpace(_)
RStripSpace(s) ==
    IF Len(s) > 0 /\ s[Len(s)] = " "
    THEN RStripSpace(SubSeq(s, 1, Len(s) - 1)) ELSE s

StripSpace(s) == RStripSpace(LStripSpace(s))

\* int(s): surrounding blanks and one sign are accepted, then one or more
\* decimal digits; anything else raises ValueError (None here)
PyInt(s) ==
    LET t == StripSpace(s)
        signed == Len(t) > 0 /\ t[1] \in {"+", "-"}
        body == IF signed THEN Tail(t) ELSE t
    IN  IF Len(body) = 0 \/ \E i \in 1..Len(body) : body[i] \notin Digits
        THEN None
        ELSE IF signed /\ t[1] = "-" THEN Some(0 - DigitsValue(body))
             ELSE Some(DigitsValue(body))

(***************************************************************************)
(* datetime.  A datetime is [ord, hour, minute, second, aware]: ord is the *)
(* proleptic Gregorian ordinal of the date, aware says whether tzinfo is   *)
(* set (every aware value of the model carries tzinfo UTC).  An aware and  *)
(* a naive datetime are never equal, so they are distinct dict keys.       *)
(***************************************************************************)
IsLeap(y) == (y % 4 = 0) /\ ((y % 100 # 0) \/ (y % 400 = 0))

DaysInMonth(y, m) ==
    IF m = 2 THEN (IF IsLeap(y) THEN 29 ELSE 28)
    ELSE IF m \in {4, 6, 9, 11} THEN 30 ELSE 31

DaysBeforeYear(y) ==
    LET p == y - 1 IN p * 365 + (p \div 4) - (p \div 100) + (p \div 400)

RECURSIVE DaysBeforeMonth(_, _)
DaysBeforeMonth(y, m) ==
    IF m <= 1 THEN 0 ELSE DaysBeforeMonth(y, m - 1) + DaysInMonth(y, m - 1)

YmdToOrd(y, m, d) == DaysBeforeYear(y) + DaysBeforeMonth(y, m) + d

MaxOrd == YmdToOrd(9999, 12, 31)

\* datetime(year, month, day, hour, minute, second, tzinfo=...): ValueError
\* (None) when a field is out of range
MkDatetime(y, mo, d, h, mi, s, aware) ==
    IF /\ y \in 1..9999 /\ mo \in 1..12
       /\ d >= 1 /\ d <= DaysInMonth(y, mo)
       /\ h \in 0..23 /\ mi \in 0..59 /\ s \in 0..59
    THEN Some([ord |-> YmdToOrd(y, mo, d), hour |-> h, minute |-> mi,
               second |-> s, aware |-> aware])
    ELSE None

\* dt + timedelta(minutes=m): OverflowError (None) outside year 1..9999
AddMinutes(dt, m) ==
    LET total == (dt.ord * 24 + dt.hour) * 60 + dt.minute + m
        o == total \div 1440
        r == total % 1440
    IN  IF o < 1 \/ o > MaxOrd THEN None
        ELSE Some([ord |-> o, hour |-> r \div 60, minute |-> r % 60,
                   second |-> dt.second, aware |-> dt.aware])

\* dt.replace(second=0, microsecond=0) then
\* .replace(minute=(minute // 10) * 10)
RoundDown10(dt) ==
    [dt EXCEPT !.second = 0, !.minute = (dt.minute \div 10) * 10]

(***************************************************************************)
(* Scene identifiers are tuples of one-character strings.                  *)
(***************************************************************************)
DigitChar(n) ==
    CASE n = 0 -> "0" [] n = 1 -> "1" [] n = 2 -> "2" [] n = 3 -> "3"
      [] n = 4 -> "4" [] n = 5 -> "5" [] n = 6 -> "6" [] n = 7 -> "7"
      [] n = 8 -> "8" [] n = 9 -> "9"

Fmt2(n) == <<DigitChar((n \div 10) % 10), DigitChar(n % 10)>>

Fmt4(n) == Fmt2(n \div 100) \o Fmt2(n % 100)

\* the identifier the catalog gives a scene acquired at y-mo-d h:mi:s UTC,
\* in the form YYYYMMDD_HHMMSS_XX_XXXX
UnderscoreId(y, mo, d, h, mi, s) ==
    Fmt4(y) \o Fmt2(mo) \o Fmt2(d) \o <<"_">> \o Fmt2(h) \o Fmt2(mi)
      \o Fmt2(s) \o <<"_", "0", "3", "_", "2", "4", "b", "d">>

\* the same scene in the form YYYYMMDDHHMMSSXXXXXX
BareId(y, mo, d, h, mi, s) ==
    Fmt4(y) \o Fmt2(mo) \o Fmt2(d) \o Fmt2(h) \o Fmt2(mi) \o Fmt2(s)
      \o <<"2", "7", "2", "4", "7", "8">>

\* position of the first c in s at or after i, Len(s)+1 when there is none
RECURSIVE FindChar(_, _, _)
FindChar(s, c, i) ==
    IF i > Len(s) THEN Len(s) + 1
    ELSE IF s[i] = c THEN i ELSE FindChar(s, c, i + 1)

\* mutation: the second and third parts are taken, s.split(c)[1:3]
SplitSecondThird(s, c) ==
    LET p == FindChar(s, c, 1)
        q == FindChar(s, c, p + 1)
        r == FindChar(s, c, q + 1)
    IN  <<SubSeq(s, p + 1, q - 1), SubSeq(s, q + 1, r - 1)>>

\* s.split(c)[:2] for a string s that contains c
SplitFirstTwo(s, c) ==
    LET p == FindChar(s, c, 1)
        q == FindChar(s, c, p + 1)
    IN  <<SubSeq(s, 1, p - 1), SubSeq(s, p + 1, q - 1)>>

\* the datetime derived from a scene identifier, None when any step raises
ItemDatetime(item_id_str) ==
    LET us == \E i \in 1..Len(item_id_str) : item_id_str[i] = "_"
        date_time_part == SplitFirstTwo(item_id_str, "_")
        date_str == IF us THEN date_time_part[1]
                    ELSE PySlice(item_id_str, 0, 8)
        time_str == IF us THEN date_time_part[2]
                    ELSE PySlice(item_id_str, 8, 14)
        year == PyInt(PySlice(date_str, 0, 4))
        month == PyInt(PySlice(date_str, 4, 6))
        day == PyInt(PySlice(date_str, 6, 8))
        hour == PyInt(PySlice(time_str, 0, 2))
        minute == PyInt(PySlice(time_str, 2, 4))
        second == PyInt(PySlice(time_str, 4, 6))
    IN  IF \E v \in {year, month, day, hour, minute, second} : v = None
        THEN None
        ELSE MkDatetime(year[1], month[1], day[1], hour[1], minute[1],
                        second[1], TRUE)

\* mutation: the later slot is probed before the earlier one
ProbeOffsetsReversed == <<10, 0, -10>>

\* mutation: range(0, 2), the earlier slot is never probed
ProbeOffsetsForward == <<0, 10>>

\* the probes made after the exact probe: range(-1, 2) times ten minutes
ProbeOffsets == <<-10, 0, 10>>

RECURSIVE ProbeFrom(_, _, _)
ProbeFrom(td, dt_rounded, i) ==
    IF i > Len(ProbeOffsets) THEN None
    ELSE LET check_dt == AddMinutes(dt_rounded, ProbeOffsets[i])
         IN  IF check_dt = None THEN None   \* OverflowError, caught
             ELSE IF check_dt[1] \in DOMAIN td THEN Some(td[check_dt[1]])
             ELSE ProbeFrom(td, dt_rounded, i + 1)

get_tide_height_for_item(item_id, td) ==
    IF DOMAIN td = {} THEN None
    ELSE LET dt == ItemDatetime(item_id)
         IN  IF dt = None THEN None
             ELSE LET dt_rounded == RoundDown10(dt[1])
                  IN  IF dt_rounded \in DOMAIN td THEN Some(td[dt_rounded])
                      ELSE ProbeFrom(td, dt_rounded, 1)

(***************************************************************************)
(* Tide files.  A CSV file is a header (the raw field names, each a tuple  *)
(* of characters, "BOM" standing for U+FEFF) and rows of cells aligned     *)
(* with the header.  A cell is the text of one field:                      *)
(*   k = "iso"   2025-05-30T10:20:00   (z: followed by Z)                  *)
(*   k = "dmy"   30/05/2025 20:00                                          *)
(*   k = "num"   a decimal number, v centimetres                           *)
(*   k = "text"  any other non-blank text                                  *)
(*   k = "empty" nothing or blanks                                         *)
(* A line of a text file is a tuple of such tokens, which there may also   *)
(* be                                                                      *)
(*   k = "date"  30/05/2025                                                *)
(*   k = "time"  20:00                                                     *)
(*   k = "word"  a word, w its characters                                  *)
(***************************************************************************)
Cell(k, y, mo, d, h, mi, s, z, v) ==
    [k |-> k, y |-> y, mo |-> mo, d |-> d, h |-> h, mi |-> mi, s |-> s,
     z |-> z, v |-> v, w |-> <<>>]

IsoCell(y, mo, d, h, mi, s) == Cell("iso", y, mo, d, h, mi, s, FALSE, 0)

IsoZCell(y, mo, d, h, mi, s) == Cell("iso", y, mo, d, h, mi, s, TRUE, 0)

DmyCell(d, mo, y, h, mi) == Cell("dmy", y, mo, d, h, mi, 0, FALSE, 0)

NumCell(v) == Cell("num", 0, 0, 0, 0, 0, 0, FALSE, v)

TextCell == Cell("text", 0, 0, 0, 0, 0, 0, FALSE, 0)

EmptyCell == Cell("empty", 0, 0, 0, 0, 0, 0, FALSE, 0)

DateTok(d, mo, y) == Cell("date", y, mo, d, 0, 0, 0, FALSE, 0)

TimeTok(h, mi) == Cell("time", 0, 0, 0, h, mi, 0, FALSE, 0)

WordTok(w) == [Cell("word", 0, 0, 0, 0, 0, 0, FALSE, 0) EXCEPT !.w = w]

\* datetime.strptime(text, "%d/%m/%Y %H:%M"): a naive datetime
strptime_dmy(c) ==
    IF c.k = "dmy" THEN MkDatetime(c.y, c.mo, c.d, c.h, c.mi, 0, FALSE)
    ELSE None

\* datetime.fromisoformat(text.replace('Z', '+00:00')): aware (UTC) when the
\* text carried the Z, naive when it did not
fromisoformat(c) ==
    IF c.k = "iso" THEN MkDatetime(c.y, c.mo, c.d, c.h, c.mi, c.s, c.z)
    ELSE None

\* float(text)
PyFloat(c) == IF c.k = "num" THEN Some(c.v) ELSE None

\* pytz Australia/Brisbane: UTC+10 all year
BrisbaneOffsetMinutes == 600

\* mutation: the ten hours are added, not taken off
AestToUtcAhead(dt_naive) ==
    LET u == AddMinutes(dt_naive, BrisbaneOffsetMinutes)
    IN  IF u = None THEN None ELSE Some([u[1] EXCEPT !.aware = TRUE])

\* aest.localize(dt_naive).astimezone(pytz.UTC)
AestToUtc(dt_naive) ==
    LET u == AddMinutes(dt_naive, 0 - BrisbaneOffsetMinutes)
    IN  IF u = None THEN None ELSE Some([u[1] EXCEPT !.aware = TRUE])

Lower(c) ==
    CASE c = "A" -> "a" [] c = "B" -> "b" [] c = "C" -> "c" [] c = "D" -> "d"
      [] c = "E" -> "e" [] c = "F" -> "f" [] c = "G" -> "g" [] c = "H" -> "h"
      [] c = "I" -> "i" [] c = "J" -> "j" [] c = "K" -> "k" [] c = "L" -> "l"
      [] c = "M" -> "m" [] c = "N" -> "n" [] c = "O" -> "o" [] c = "P" -> "p"
      [] c = "Q" -> "q" [] c = "R" -> "r" [] c = "S" -> "s" [] c = "T" -> "t"
      [] c = "U" -> "u" [] c = "V" -> "v" [] c = "W" -> "w" [] c = "X" -> "x"
      [] c = "Y" -> "y" [] c = "Z" -> "z" [] OTHER -> c

LowerStr(s) == [i \in 1..Len(s) |-> Lower(s[i])]

RECURSIVE LStripBom(_)
LStripBom(s) ==
    IF Len(s) > 0 /\ s[1] = "BOM" THEN LStripBom(Tail(s)) ELSE s

\* original.strip().lstrip(BOM).lower()
NormalizeField(original) == LowerStr(LStripBom(StripSpace(original)))

str_datetime == <<"d", "a", "t", "e", "t", "i", "m", "e">>

str_height == <<"h", "e", "i", "g", "h", "t">>

str_tide_height == <<"t", "i", "d", "e", "_">> \o str_height

\* match_field([option]): the index of the first field whose normalised
\* name is the option, 0 (None) when there is none
RECURSIVE MatchFrom(_, _, _)
MatchFrom(fieldnames, option, i) ==
    IF i > Len(fieldnames) THEN 0
    ELSE IF Len(fieldnames[i]) > 0 /\ NormalizeField(fieldnames[i]) = option
         THEN i
         ELSE MatchFrom(fieldnames, option, i + 1)

match_field(fieldnames, option) == MatchFrom(fieldnames, option, 1)

\* which of the two CSV conventions the header selects, "none" for neither
CsvBranch(fieldnames) ==
    LET datetime_key == match_field(fieldnames, str_datetime)
        height_key == match_field(fieldnames, str_height)
        tide_height_key == match_field(fieldnames, str_tide_height)
    IN  IF datetime_key # 0 /\ height_key # 0 THEN "aest"
        ELSE IF datetime_key # 0 /\ tide_height_key # 0 THEN "utc"
        ELSE "none"

\* the column the heights of a branch are read from
HeightKey(fieldnames, branch) ==
    IF branch = "aest" THEN match_field(fieldnames, str_height)
    ELSE match_field(fieldnames, str_tide_height)

\* dt_utc of one row, None when parsing raises
RowDatetime(branch, dt_cell) ==
    IF branch = "aest"
    THEN LET dt_naive == strptime_dmy(dt_cell)
         IN  IF dt_naive = None THEN None ELSE AestToUtc(dt_naive[1])
    ELSE fromisoformat(dt_cell)

\* one pass of the row loop of _load_tide_from_csv over acc = [td, n]
CsvRowStep(acc, row, branch, dk, hk) ==
    IF row[dk].k = "empty" THEN acc                 \* if not dt_str: continue
    ELSE LET dt_utc == RowDatetime(branch, row[dk])
             tide_height == PyFloat(row[hk])
         IN  IF dt_utc = None \/ tide_height = None THEN acc  \* except
             ELSE [td |-> DictPut(acc.td, RoundDown10(dt_utc[1]),
                                  tide_height[1]),
                   n |-> acc.n + 1]

RECURSIVE CsvRows(_, _, _, _, _, _)
CsvRows(acc, rows, i, branch, dk, hk) ==
    IF i > Len(rows) THEN acc
    ELSE CsvRows(CsvRowStep(acc, rows[i], branch, dk, hk), rows, i + 1,
                 branch, dk, hk)

\* _load_tide_from_csv on self.tide_data = td0: [raised, td, n]
load_tide_from_csv(file, td0) ==
    LET branch == CsvBranch(file.header)
    IN  IF branch = "none" THEN [raised |-> TRUE, td |-> td0, n |-> 0]
        ELSE LET acc == CsvRows([td |-> td0, n |-> 0], file.rows, 1, branch,
                                match_field(file.header, str_datetime),
                                HeightKey(file.header, branch))
             IN  [raised |-> FALSE, td |-> acc.td, n |-> acc.n]

\* s.startswith(p)
StartsWith(s, p) == Len(s) >= Len(p) /\ SubSeq(s, 1, Len(p)) = p

\* p in s
Contains(s, p) ==
    \E i \in 1..(Len(s) - Len(p) + 1) : SubSeq(s, i, i + Len(p) - 1) = p

str_date == <<"d", "a", "t", "e">>

\* line.lower().startswith('date') and 'height' in line.lower(), for a
\* stripped line given as its tokens
IsTxtHeader(line) ==
    /\ Len(line) > 0
    /\ line[1].k = "word" /\ StartsWith(LowerStr(line[1].w), str_date)
    /\ \E i \in 1..Len(line) :
           line[i].k = "word" /\ Contains(LowerStr(line[i].w), str_height)

\* datetime.strptime(f"{date_str} {time_str}", "%d/%m/%Y %H:%M") with
\* tzinfo replaced by UTC
TxtDatetime(date_tok, time_tok) ==
    IF date_tok.k = "date" /\ time_tok.k = "time"
    THEN MkDatetime(date_tok.y, date_tok.mo, date_tok.d, time_tok.h,
                    time_tok.mi, 0, TRUE)
    ELSE None

\* mutation: the height is read from the third column
TxtLineStepThirdColumn(acc, parts) ==
    IF Len(parts) = 0 THEN acc
    ELSE IF ~acc.header_found
    THEN [acc EXCEPT !.header_found = IsTxtHeader(parts)]
    ELSE IF Len(parts) < 3 THEN acc
    ELSE LET dt_utc == TxtDatetime(parts[1], parts[2])
             tide_height == PyFloat(parts[3])
         IN  IF dt_utc = None \/ tide_height = None THEN acc
             ELSE [acc EXCEPT
                     !.td = DictPut(acc.td, RoundDown10(dt_utc[1]),
                                    tide_height[1]),
                     !.n = acc.n + 1]

\* one pass of the line loop of _load_tide_from_equispaced_txt over
\* acc = [td, n, header_found]
TxtLineStep(acc, parts) ==
    IF Len(parts) = 0 THEN acc                          \* blank line
    ELSE IF ~acc.header_found
    THEN [acc EXCEPT !.header_found = IsTxtHeader(parts)]
    ELSE IF Len(parts) < 3 THEN acc
    ELSE LET dt_utc == TxtDatetime(parts[1], parts[2])
             tide_height == PyFloat(parts[Len(parts)])
         IN  IF dt_utc = None \/ tide_height = None THEN acc
             ELSE [acc EXCEPT
                     !.td = DictPut(acc.td, RoundDown10(dt_utc[1]),
                                    tide_height[1]),
                     !.n = acc.n + 1]

RECURSIVE TxtLines(_, _, _)
TxtLines(acc, lines, i) ==
    IF i > Len(lines) THEN acc
    ELSE TxtLines(TxtLineStep(acc, lines[i]), lines, i + 1)

\* _load_tide_from_equispaced_txt on self.tide_data = td0: [raised, td, n]
load_tide_from_equispaced_txt(file, td0) ==
    LET acc == TxtLines([td |-> td0, n |-> 0, header_found |-> FALSE],
                        file.rows, 1)
    IN  [raised |-> ~acc.header_found, td |-> acc.td, n |-> acc.n]

\* index of the field whose raw name is exactly name, 0 when there is none
RECURSIVE ExactFrom(_, _, _)
ExactFrom(fieldnames, name, i) ==
    IF i > Len(fieldnames) THEN 0
    ELSE IF fieldnames[i] = name THEN i
    ELSE ExactFrom(fieldnames, name, i + 1)

\* the row loop of the legacy load_tide_data: the first row that raises
\* ends the loop and leaves what was inserted so far: [raised, td, n]
RECURSIVE LegacyRows(_, _, _, _, _)
LegacyRows(acc, rows, i, dk, hk) ==
    IF i > Len(rows) THEN acc
    ELSE IF dk = 0 THEN [acc EXCEPT !.raised = TRUE]           \* KeyError
    ELSE LET dt == fromisoformat(rows[i][dk])
             tide_height == IF hk = 0 THEN None ELSE PyFloat(rows[i][hk])
         IN  IF dt = None \/ tide_height = None
             THEN [acc EXCEPT !.raised = TRUE]
             ELSE LegacyRows([acc EXCEPT
                                !.td = DictPut(acc.td, RoundDown10(dt[1]),
                                               tide_height[1]),
                                !.n = acc.n + 1],
                             rows, i + 1, dk, hk)

legacy_load_rows(file, td0) ==
    LegacyRows([raised |-> FALSE, td |-> td0, n |-> 0], file.rows, 1,
               ExactFrom(file.header, str_datetime, 1),
               ExactFrom(file.header, str_tide_height, 1))

\* pd.read_csv then row[col]: an empty field is read as the float NaN
PandasValue(c) == IF c.k = "empty" THEN NumCell(NaN) ELSE c

\* pd.isna(dt_raw) or not str(dt_raw).strip()
WebDatetimeBlank(c) == c.k = "empty"

\* one pass of the row loop of parse_tide_csv over acc = [td, n]
WebRowStep(acc, row, branch, dk, hk) ==
    IF WebDatetimeBlank(row[dk]) THEN acc
    ELSE LET dt_utc == RowDatetime(branch, row[dk])
             height_value == PyFloat(PandasValue(row[hk]))
         IN  IF dt_utc = None \/ height_value = None THEN acc
             ELSE [td |-> DictPut(acc.td, RoundDown10(dt_utc[1]),
                                  height_value[1]),
                   n |-> acc.n + 1]

RECURSIVE WebRows(_, _, _, _, _, _)
WebRows(acc, rows, i, branch, dk, hk) ==
    IF i > Len(rows) THEN acc
    ELSE WebRows(WebRowStep(acc, rows[i], branch, dk, hk), rows, i + 1,
                 branch, dk, hk)

\* parse_tide_csv(df): [raised, td, n], td built in a fresh dict
parse_tide_csv(file) ==
    LET branch == CsvBranch(file.header)
    IN  IF branch = "none" THEN [raised |-> TRUE, td |-> EmptyDict, n |-> 0]
        ELSE LET acc == WebRows([td |-> EmptyDict, n |-> 0], file.rows, 1,
                                branch,
                                match_field(file.header, str_datetime),
                                HeightKey(file.header, branch))
             IN  [raised |-> FALSE, td |-> acc.td, n |-> acc.n]

\* parse_tide_txt(uploaded_file): [raised, td, n], td built in a fresh dict
parse_tide_txt(file) == load_tide_from_equispaced_txt(file, EmptyDict)

(***************************************************************************)
(* Inputs.  Every timestamp lies on 30 May 2025 (UTC) or, for Brisbane     *)
(* civil times, on the evening of the same day.                            *)
(***************************************************************************)
MaxRows == 2

\* the day of the model: 30 May 2025
BaseDate == <<2025, 5, 30>>

Y0 == BaseDate[1]

M0 == BaseDate[2]

D0 == BaseDate[3]

RECURSIVE SeqsUpTo(_, _)
SeqsUpTo(S, n) ==
    IF n = 0 THEN {<<>>}
    ELSE LET shorter == SeqsUpTo(S, n - 1)
         IN  shorter \cup {Append(q, x) : q \in shorter, x \in S}

hdr_DateTime == <<"D", "a", "t", "e", "T", "i", "m", "e">>

hdr_Height == <<"H", "e", "i", "g", "h", "t">>

hdr_Tide_Height_padded ==
    <<" ", "T", "i", "d", "e", "_", "H", "e", "i", "g", "h", "t", " ">>

hdr_bom_DateTime == <<"BOM">> \o hdr_DateTime

hdr_bom_space_datetime == <<"BOM", " ">> \o str_datetime

hdr_Level == <<"L", "e", "v", "e", "l">>

HeaderAest == <<hdr_DateTime, hdr_Height>>

HeaderUtc == <<str_datetime, str_tide_height>>

OtherHeaders ==
    { <<hdr_bom_DateTime, hdr_Tide_Height_padded>>,
      <<hdr_bom_DateTime, hdr_Height>>,
      <<hdr_bom_space_datetime, str_tide_height>>,
      <<str_datetime, hdr_Level>>,
      <<hdr_Level, str_tide_height>> }

UtcRows ==
    { <<IsoZCell(Y0, M0, D0, 10, 5, 30), NumCell(142)>>,
      <<IsoZCell(Y0, M0, D0, 10, 0, 0), NumCell(87)>>,
      <<IsoZCell(Y0, M0, D0, 10, 20, 0), NumCell(95)>>,
      <<IsoCell(Y0, M0, D0, 10, 20, 0), NumCell(60)>>,
      <<IsoZCell(Y0, M0, D0, 10, 20, 0), TextCell>>,
      <<IsoZCell(Y0, M0, D0, 10, 0, 0), EmptyCell>>,
      <<TextCell, NumCell(50)>> }

AestRows ==
    { <<DmyCell(D0, M0, Y0, 20, 5), NumCell(110)>>,
      <<DmyCell(D0, M0, Y0, 20, 0), NumCell(87)>>,
      <<DmyCell(D0, M0, Y0, 20, 20), NumCell(120)>>,
      <<DmyCell(D0, M0, Y0, 20, 20), TextCell>>,
      <<DmyCell(31, 2, Y0, 20, 0), NumCell(50)>>,
      <<EmptyCell, NumCell(70)>> }

word_Date == <<"D", "a", "t", "e">>

word_Time == <<"T", "i", "m", "e">>

word_Station == <<"S", "t", "a", "t", "i", "o", "n">>

TxtLineSet ==
    { <<WordTok(word_Date), WordTok(word_Time), WordTok(hdr_Height)>>,
      <<WordTok(word_Station), WordTok(hdr_Height)>>,
      <<>>,
      <<DateTok(D0, M0, Y0), TimeTok(10, 0), NumCell(87)>>,
      <<DateTok(D0, M0, Y0), TimeTok(10, 25), NumCell(3), NumCell(95)>>,
      <<DateTok(D0, M0, Y0), TimeTok(10, 20), TextCell>> }

CsvFile(header, rows) == [ext |-> "csv", header |-> header, rows |-> rows]

TxtFile(lines) == [ext |-> "txt", header |-> <<>>, rows |-> lines]

\* the files a first load is offered
Files ==
    {CsvFile(HeaderUtc, b) : b \in SeqsUpTo(UtcRows, MaxRows)}
      \cup {CsvFile(HeaderAest, b) : b \in SeqsUpTo(AestRows, MaxRows)}
      \cup {CsvFile(h, b) : h \in OtherHeaders,
                            b \in SeqsUpTo({<<IsoZCell(Y0, M0, D0, 10, 0, 0),
                                              NumCell(87)>>}, 1)}
      \cup {TxtFile(b) : b \in SeqsUpTo(TxtLineSet, MaxRows + 1)}

DataLine ==
    <<DateTok(D0, M0, Y0), TimeTok(10, 0), NumCell(87)>>

\* the files a later load is offered: one that loads, and one for each way
\* a load can fail
ReloadFiles ==
    { CsvFile(HeaderUtc, <<<<IsoZCell(Y0, M0, D0, 10, 20, 0), NumCell(33)>>>>),
      CsvFile(HeaderUtc, <<<<IsoZCell(Y0, M0, D0, 10, 20, 0), NumCell(33)>>,
                           <<TextCell, NumCell(50)>>>>),
      CsvFile(HeaderUtc, <<<<TextCell, NumCell(50)>>>>),
      CsvFile(HeaderUtc, <<>>),
      CsvFile(<<str_datetime, hdr_Level>>,
              <<<<IsoZCell(Y0, M0, D0, 10, 20, 0), NumCell(33)>>>>),
      TxtFile(<<DataLine>>),
      TxtFile(<<<<WordTok(word_Date), WordTok(word_Time),
                  WordTok(hdr_Height)>>>>) }

OfferedFiles == IF last_file = None THEN Files ELSE ReloadFiles

Variants == {"app", "web", "legacy"}

(***************************************************************************)
(* Loading a tide file.                                                    *)
(***************************************************************************)
\* mutation: the check for zero records is missing
LoadRaisedOnly(r) == r.raised

\* a parser raised, or load_tide_data raises because line_count == 0
LoadFailed(r) == r.raised \/ r.n = 0

\* load_tide_data of the app: the table is emptied, then filled in place
LoadTideData(f) ==
    /\ variant = "app"
    /\ LET r == IF f.ext = "txt"
                THEN load_tide_from_equispaced_txt(f, EmptyDict)
                ELSE load_tide_from_csv(f, EmptyDict)
           failed == LoadFailed(r)
       IN  /\ tide_data' = r.td
           /\ tide_file_loaded' = IF failed THEN tide_file_loaded ELSE Some(f)
           /\ sort_tide_btn' = IF failed THEN sort_tide_btn ELSE "normal"
           /\ ui' = IF failed THEN "Load Error" ELSE "Tide Data Loaded"
           /\ last_count' = r.n
    /\ tide_before' = tide_data
    /\ last_file' = Some(f)
    /\ lookup_id' = None
    /\ lookup_result' = None
    /\ results_before' = None
    /\ UNCHANGED <<variant, restVars, deskVars, results, searchVars, previewVars>>

\* load_tide_data of the legacy browser: every file is read as a CSV with
\* the columns datetime and tide_height, and the first bad row ends the load
LegacyLoadTideData(f) ==
    /\ variant = "legacy"
    /\ f.ext = "csv"
    /\ LET r == legacy_load_rows(f, EmptyDict)
       IN  /\ tide_data' = r.td
           /\ tide_file_loaded' =
                 IF r.raised THEN tide_file_loaded ELSE Some(f)
           /\ sort_tide_btn' = IF r.raised THEN sort_tide_btn ELSE "normal"
           /\ ui' = IF r.raised THEN "Load Error" ELSE "Tide Data Loaded"
           /\ last_count' = r.n
    /\ tide_before' = tide_data
    /\ last_file' = Some(f)
    /\ lookup_id' = None
    /\ lookup_result' = None
    /\ results_before' = None
    /\ UNCHANGED <<variant, restVars, deskVars, results, searchVars, previewVars>>

\* the tide upload handler of the web app: the table is parsed aside and
\* stored only when at least one record was read
UploadTideFile(f) ==
    /\ variant = "web"
    /\ LET r == IF f.ext = "txt" THEN parse_tide_txt(f)
                ELSE parse_tide_csv(f)
       IN  /\ tide_data' = IF r.raised \/ r.n = 0 THEN tide_data ELSE r.td
           /\ ui' = IF r.raised THEN "error"
                    ELSE IF r.n = 0 THEN "warning" ELSE "success"
           /\ last_count' = r.n
    /\ tide_before' = tide_data
    /\ last_file' = Some(f)
    /\ lookup_id' = None
    /\ lookup_result' = None
    /\ results_before' = None
    /\ UNCHANGED <<variant, restVars, deskVars, tide_file_loaded, sort_tide_btn, results,
                   searchVars, previewVars>>

(***************************************************************************)
(* Looking a scene up.                                                     *)
(***************************************************************************)
SceneTimes ==
    { <<9, 55, 10>>, <<10, 0, 0>>, <<10, 9, 59>>, <<10, 10, 0>>,
      <<10, 15, 30>>, <<10, 19, 59>>, <<10, 20, 0>>, <<10, 30, 0>>,
      <<10, 40, 0>> }

WellFormedIds ==
    {UnderscoreId(Y0, M0, D0, t[1], t[2], t[3]) :
        t \in SceneTimes \cup {<<0, 22, 44>>}}
      \cup {BareId(Y0, M0, D0, t[1], t[2], t[3]) :
              t \in {<<10, 10, 0>>, <<10, 22, 44>>, <<0, 22, 44>>}}

MalformedIds ==
    { <<"s", "c", "e", "n", "e">>,
      <<"2", "0", "2", "5", "_", "1", "0", "1", "0", "0", "0">>,
      Fmt4(Y0) \o <<"1", "3", "4", "5", "_", "1", "0", "1", "0", "0", "0">>,
      Fmt4(Y0) \o Fmt2(M0) \o Fmt2(D0)
         \o <<"1", "_", "1", "0", "1", "0", "0", "0">>,
      Fmt4(Y0) \o Fmt2(M0) \o Fmt2(D0) \o <<"_", "1", "0", "1", "0", "0">>,
      Fmt4(Y0) \o Fmt2(M0) \o Fmt2(D0) \o <<"1", "0", "1", "0", "0">>,
      Fmt4(Y0) \o Fmt2(M0) \o Fmt2(D0) \o <<"1", "0", "1", "0">>,
      Fmt4(Y0) \o <<"+", "5">> \o Fmt2(D0)
         \o <<"_", "1", "0", "1", "0", "0", "0">>,
      Fmt4(Y0) \o Fmt2(M0) \o Fmt2(D0) \o <<"_", "1", "0", "x", "0", "0", "0">> }

ItemIds == WellFormedIds \cup MalformedIds

\* one call of get_tide_height_for_item, as made for every row of the
\* results table, by the sort and by the export
Lookup(id) ==
    /\ lookup_id' = Some(id)
    /\ lookup_result' = get_tide_height_for_item(id, tide_data)
    /\ UNCHANGED <<variant, restVars, deskVars, tide_data, tide_file_loaded, sort_tide_btn,
                   results, ui, tide_before, last_file, last_count,
                   results_before, searchVars, previewVars>>

\* the program after construction
InitProgram ==
    /\ variant \in Variants
    /\ tide_data = EmptyDict
    /\ tide_file_loaded = None
    /\ sort_tide_btn = "disabled"
    /\ results = <<>>
    /\ ui = "ready"
    /\ tide_before = EmptyDict
    /\ last_file = None
    /\ last_count = 0
    /\ lookup_id = None
    /\ lookup_result = None
    /\ results_before = None
    /\ searching = FALSE
    /\ search_log = None
    /\ order_request = None
    /\ aoi_bounds = None
    /\ grid_size_var = 3
    /\ preview_mode = "aoi"
    /\ current_preview_index = 0
    /\ current_preview_image = None
    /\ current_preview_bounds = None
    /\ preview_info_label = "Select an item"
    /\ preview_threads = <<>>
    /\ after_queue = <<>>
    /\ saved = None
    /\ last_loaded = None
    /\ validation = <<>>
    /\ tile_math = None
    /\ results_tree = <<>>
    /\ search_threads = <<>>
    /\ exposure_status = EmptyDict
    /\ download_btn = "disabled"
    /\ order_threads = <<>>
    /\ since_reset = FALSE
    /\ order_log = <<>>

\* ... with a tile server that answers every request
Init == InitProgram /\ tile_server = [base |-> "200", at |-> 0, alt |-> "200"]

\* loading only: the first load is offered every file, later loads one file
\* of each outcome
NextLoad ==
    \/ \E f \in OfferedFiles : LoadTideData(f)
    \/ \E f \in OfferedFiles : LegacyLoadTideData(f)
    \/ \E f \in OfferedFiles : UploadTideFile(f)

SpecLoad == Init /\ [][NextLoad]_vars

\* the rows of the files offered when lookups are studied: the three slots
\* around 10:10, each with its own height, and a row without the Z
LookupRows ==
    { <<IsoZCell(Y0, M0, D0, 10, 0, 0), NumCell(87)>>,
      <<IsoZCell(Y0, M0, D0, 10, 10, 0), NumCell(142)>>,
      <<IsoZCell(Y0, M0, D0, 10, 20, 0), NumCell(95)>>,
      <<IsoCell(Y0, M0, D0, 10, 10, 0), NumCell(60)>> }

\* ... and the file of the single row 2025-05-30T00:20:00Z,1.42
LookupFiles ==
    {CsvFile(HeaderUtc, b) : b \in SeqsUpTo(LookupRows, MaxRows)}
      \cup {CsvFile(HeaderUtc,
                    <<<<IsoZCell(Y0, M0, D0, 0, 20, 0), NumCell(142)>>>>)}

OfferedLookupFiles == IF last_file = None THEN LookupFiles ELSE ReloadFiles

NextLookup ==
    \/ \E f \in OfferedLookupFiles : LoadTideData(f)
    \/ \E f \in OfferedLookupFiles : LegacyLoadTideData(f)
    \/ \E f \in OfferedLookupFiles : UploadTideFile(f)
    \/ \E id \in ItemIds : Lookup(id)

SpecLookup == Init /\ [][NextLookup]_vars

(***************************************************************************)
(* Sorting by tide.  list.sort is CPython's: for fewer than 64 elements    *)
(* the first run is found (a strictly descending one is reversed) and the  *)
(* remaining elements are put in place by binary insertion, every          *)
(* comparison being key(a) < key(b).                                       *)
(***************************************************************************)
\* float a < float b, false when either is NaN
FloatLess(a, b) == a # NaN /\ b # NaN /\ a < b

\* float a == float b
FloatEq(a, b) == a # NaN /\ b # NaN /\ a = b

\* (x is None, x if x is not None else inf) < (y is None, y if ... inf)
\* for two lookup results x, y
KeyLess(x, y) ==
    IF (x = None) # (y = None) THEN y = None
    ELSE IF x = None THEN FALSE
    ELSE ~FloatEq(x[1], y[1]) /\ FloatLess(x[1], y[1])

RECURSIVE FirstRunEnd(_, _, _, _)
FirstRunEnd(ks, i, descending, n) ==
    IF i >= n THEN i
    ELSE IF descending = KeyLess(ks[i + 1], ks[i])
         THEN FirstRunEnd(ks, i + 1, descending, n)
         ELSE i

Reverse(q) == [i \in 1..Len(q) |-> q[Len(q) + 1 - i]]

\* the insertion point of pivot among a[1..start-1] (1-based, l and r as in
\* binarysort shifted by one)
RECURSIVE BinarySearch(_, _, _, _)
BinarySearch(ks, pivot, l, r) ==
    IF l >= r THEN l
    ELSE LET p == l + ((r - l) \div 2)
         IN  IF KeyLess(pivot, ks[p]) THEN BinarySearch(ks, pivot, l, p)
             ELSE BinarySearch(ks, pivot, p + 1, r)

InsertAt(q, j, x) == SubSeq(q, 1, j - 1) \o <<x>> \o SubSeq(q, j, Len(q))

\* binarysort: pairs = <<item, key>> tuples, the first done ones sorted
RECURSIVE BinaryInsertion(_, _)
BinaryInsertion(pairs, done) ==
    IF done >= Len(pairs) THEN pairs
    ELSE LET pivot == pairs[done + 1]
             sorted == SubSeq(pairs, 1, done)
             ks == [i \in 1..done |-> sorted[i][2]]
             j == BinarySearch(ks, pivot[2], 1, done + 1)
         IN  BinaryInsertion(InsertAt(sorted, j, pivot)
                               \o SubSeq(pairs, done + 2, Len(pairs)),
                             done + 1)

\* results_with_tide.sort(key=...) on pairs <<item, tide_height>>
PySort(pairs) ==
    LET n == Len(pairs)
        ks == [i \in 1..n |-> pairs[i][2]]
    IN  IF n < 2 THEN pairs
        ELSE LET descending == KeyLess(ks[2], ks[1])
                 run == FirstRunEnd(ks, 2, descending, n)
                 head == IF descending THEN Reverse(SubSeq(pairs, 1, run))
                         ELSE SubSeq(pairs, 1, run)
             IN  BinaryInsertion(head \o SubSeq(pairs, run + 1, n), run)

\* results sorted by looked-up tide height
SortedByTide(rs, td) ==
    LET results_with_tide ==
            [i \in 1..Len(rs) |-> <<rs[i], get_tide_height_for_item(rs[i], td)>>]
        sorted == PySort(results_with_tide)
    IN  [i \in 1..Len(rs) |-> sorted[i][1]]

\* sort_by_tide of the app and of the legacy browser; the sorted list is
\* shown by _update_results_ui, which fills the table again, sets the
\* Search button to normal and, in the legacy browser, empties
\* exposure_status
SortByTide ==
    /\ variant \in {"app", "legacy"}
    /\ IF results = <<>>
       THEN /\ ui' = "No Data"
            /\ UNCHANGED <<results, results_before, results_tree, searching,
                           exposure_status>>
       ELSE IF DOMAIN tide_data = {}
       THEN /\ ui' = "No Tide Data"
            /\ UNCHANGED <<results, results_before, results_tree, searching,
                           exposure_status>>
       ELSE /\ results' = SortedByTide(results, tide_data)
            /\ results_before' = Some(results)
            /\ results_tree' = results'
            /\ searching' = FALSE
            /\ exposure_status' =
                  IF variant = "legacy" THEN EmptyDict ELSE exposure_status
            /\ ui' = "Sorted by Tide"
    /\ UNCHANGED <<variant, restVars, search_threads, download_btn,
                   order_threads, since_reset, order_log, tide_data, tide_file_loaded,
                   sort_tide_btn, tide_before, last_file, last_count,
                   lookup_id, lookup_result, aoi_bounds, search_log,
                   order_request, previewVars>>

\* the Sort by Lowest Tide button of the web app (shown with the results
\* table, that is when there are results)
WebSortByTide ==
    /\ variant = "web"
    /\ results # <<>>
    /\ IF DOMAIN tide_data # {}
       THEN /\ results' = SortedByTide(results, tide_data)
            /\ results_before' = Some(results)
            /\ ui' = "Results sorted by tide height"
       ELSE /\ ui' = "Please load tide data first"
            /\ UNCHANGED <<results, results_before>>
    /\ UNCHANGED <<variant, restVars, deskVars, tide_data, tide_file_loaded, sort_tide_btn,
                   tide_before, last_file, last_count, lookup_id,
                   lookup_result, searchVars, previewVars>>

\* the tide-side variables a search leaves alone
tideVars == <<tide_data, tide_file_loaded, sort_tide_btn, tide_before,
              last_file, last_count, lookup_id, lookup_result>>

(***************************************************************************)
(* The area of interest.  A place is given by its world coordinates in     *)
(* half tiles of zoom 17 (so that int() has something to cut off); its     *)
(* longitude and latitude are in millionths of a degree, the cosine of its *)
(* latitude in thousandths, lengths in millimetres.                        *)
(***************************************************************************)
\* sorting is studied for one search at one place
SortCenter == <<200, 100>>

Centers == {SortCenter, <<207, 103>>}

\* the place validate_app.py tries: -33.8688, 151.2093
Sydney == <<241179, 157310>>

\* center_lon: 360 degrees are 2^18 half tiles
LonMicroDeg(center) ==
    (center[1] \div 1000) * 1373291
       + ((center[1] % 1000) * 1373291) \div 1000 - 180000000

\* center_lat of the places of the model (the inverse of the Mercator row)
LatMicroDeg(center) ==
    CASE center = SortCenter -> 85039268
      [] center = <<207, 103>> -> 85038911
      [] center = Sydney -> -33868800

\* math.cos(math.radians(center_lat)) of the places of the model
CosPermille(center) ==
    CASE center = SortCenter -> 86
      [] center = <<207, 103>> -> 86
      [] center = Sydney -> 830

\* 256 * 156543.03 / 2 ** 17 metres: the width of a tile at the equator
EquatorTileMm == 305748

MetersPerDegLat == 111320

\* the ring of a box in the order written by calculate_aoi, points as
\* (lon, lat)
BoxRing(min_lat, max_lat, min_lon, max_lon) ==
    << <<min_lon, min_lat>>, <<max_lon, min_lat>>, <<max_lon, max_lat>>,
       <<min_lon, max_lat>>, <<min_lon, min_lat>> >>

\* mutation: the box reaches one half side above and three below the center
calculate_aoi_lopsided(center, grid_size) ==
    LET center_lat == LatMicroDeg(center)
        center_lon == LonMicroDeg(center)
        tile_size_m == (EquatorTileMm * CosPermille(center)) \div 1000
        half_side_m == (grid_size * tile_size_m) \div 2
        half_side_deg_lat == (half_side_m * 1000) \div MetersPerDegLat
        half_side_deg_lon ==
            (((half_side_m * 1000) \div MetersPerDegLat) * 1000)
               \div CosPermille(center)
        min_lon == center_lon - half_side_deg_lon
        max_lon == center_lon + half_side_deg_lon
        min_lat == center_lat - 3 * half_side_deg_lat
        max_lat == center_lat + half_side_deg_lat
    IN  [aoi |-> BoxRing(min_lat, max_lat, min_lon, max_lon),
         aoi_bounds |-> <<center, min_lat, max_lat, min_lon, max_lon>>]

\* calculate_aoi: (aoi, aoi_bounds) for a center and a grid size; the
\* bounds tuple keeps the center first
calculate_aoi(center, grid_size) ==
    LET center_lat == LatMicroDeg(center)
        center_lon == LonMicroDeg(center)
        tile_size_m == (EquatorTileMm * CosPermille(center)) \div 1000
        half_side_m == (grid_size * tile_size_m) \div 2
        half_side_deg_lat == (half_side_m * 1000) \div MetersPerDegLat
        half_side_deg_lon ==
            (((half_side_m * 1000) \div MetersPerDegLat) * 1000)
               \div CosPermille(center)
        min_lon == center_lon - half_side_deg_lon
        max_lon == center_lon + half_side_deg_lon
        min_lat == center_lat - half_side_deg_lat
        max_lat == center_lat + half_side_deg_lat
    IN  [aoi |-> BoxRing(min_lat, max_lat, min_lon, max_lon),
         aoi_bounds |-> <<center, min_lat, max_lat, min_lon, max_lon>>]

\* what a search can change: the results (the results table shows them),
\* the index of the preview, the AOI, and the state of the Search button
SearchState(rs, index, aoi, busy) ==
    [results |-> rs, current_preview_index |-> index, aoi_bounds |-> aoi,
     search_btn |-> IF busy THEN "disabled" ELSE "normal"]

\* threads are started while fewer than MaxSearchThreads are under way
MaxSearchThreads == 2

\* a search thread: where it is (start, query, collect) and the scenes of
\* the catalog it has still to append
NewSearchThread == [pc |-> "start", found |-> <<>>]

\* perform_search of the desktop browsers: the app clears the previous
\* results first, both disable the Search button and start the search
\* thread
PerformSearch ==
    /\ variant \in {"app", "legacy"}
    /\ ~searching
    /\ Len(search_threads) < MaxSearchThreads
    /\ searching' = TRUE
    /\ IF variant = "app" /\ results # <<>>
       THEN /\ results' = <<>>
            /\ results_tree' = <<>>
            /\ current_preview_index' = 0
       ELSE UNCHANGED <<results, results_tree, current_preview_index>>
    /\ search_threads' = Append(search_threads, NewSearchThread)
    /\ since_reset' = FALSE
    /\ ui' = "Searching for imagery..."
    /\ search_log' =
          Some([before |-> SearchState(results, current_preview_index,
                                       aoi_bounds, searching),
                rejected |-> FALSE,
                after |-> SearchState(results', current_preview_index',
                                      aoi_bounds, searching')])
    /\ UNCHANGED <<variant, restVars, exposure_status, download_btn,
                   order_threads, order_log, tideVars, results_before,
                   aoi_bounds,
                   order_request,
                   grid_size_var, preview_mode, current_preview_image,
                   current_preview_bounds, preview_info_label,
                   preview_threads, after_queue, saved, last_loaded, tile_server>>

\* _search_thread from its start to its end and the _update_results_ui it
\* asks for, with nothing in between: the AOI is computed from the entries
\* as they are now, stored, and the scenes found replace the result list
\* and fill the table
SearchDelivers(center, rs) ==
    /\ variant \in {"app", "legacy"}
    /\ search_threads # <<>>
    /\ Head(search_threads).pc = "start"
    /\ search_threads' = Tail(search_threads)
    /\ searching' = FALSE
    /\ aoi_bounds' = calculate_aoi(center, grid_size_var).aoi_bounds
    /\ search_log' = None
    /\ results' = rs
    /\ results_tree' = rs
    /\ exposure_status' =
          IF variant = "legacy" THEN EmptyDict ELSE exposure_status
    /\ results_before' = None
    /\ ui' = IF rs = <<>> THEN "No Results" ELSE "Search Complete"
    /\ UNCHANGED <<variant, restVars, download_btn, order_threads,
                   since_reset, order_log, tideVars, order_request,
                   previewVars>>

\* _search_thread when a center entry is no number: calculate_aoi shows
\* the Input Error box and returns (None, None), and the thread returns
SearchRejectsInput ==
    /\ variant \in {"app", "legacy"}
    /\ search_threads # <<>>
    /\ Head(search_threads).pc = "start"
    /\ search_threads' = Tail(search_threads)
    /\ search_log # None
    /\ ui' = "Input Error"
    /\ search_log' =
          Some([search_log[1] EXCEPT
                  !.rejected = TRUE,
                  !.after = SearchState(results, current_preview_index,
                                        aoi_bounds, searching)])
    /\ UNCHANGED <<variant, restVars, results_tree, exposure_status,
                   download_btn, order_threads, since_reset, order_log,
                   tideVars,
                   results, results_before, searching, aoi_bounds,
                   order_request, previewVars>>

\* the Search button of the web app, handled in one run of the script
WebSearch(center, rs) ==
    /\ variant = "web"
    /\ aoi_bounds' = calculate_aoi(center, grid_size_var).aoi_bounds
    /\ results' = rs
    /\ results_before' = None
    /\ current_preview_index' = 0
    /\ preview_mode' = "aoi"
    /\ ui' = "Found scenes"
    /\ UNCHANGED <<variant, restVars, deskVars, tideVars, searching, search_log, order_request,
                   grid_size_var,
                   current_preview_image, current_preview_bounds,
                   preview_info_label, preview_threads, after_queue, saved,
                   last_loaded, tile_server>>

MaxResults == 3

SortScenes ==
    { UnderscoreId(Y0, M0, D0, 10, 0, 0),
      BareId(Y0, M0, D0, 10, 10, 0),
      UnderscoreId(Y0, M0, D0, 10, 20, 0),
      UnderscoreId(Y0, M0, D0, 10, 40, 0),
      UnderscoreId(Y0, M0, D0, 11, 10, 0),
      <<"s", "c", "e", "n", "e">> }

IsInjective(q) == \A i, j \in 1..Len(q) : q[i] = q[j] => i = j

ResultLists == {q \in SeqsUpTo(SortScenes, MaxResults) : IsInjective(q)}

SortFiles ==
    { CsvFile(HeaderUtc, <<<<IsoZCell(Y0, M0, D0, 10, 0, 0), NumCell(87)>>,
                           <<IsoZCell(Y0, M0, D0, 10, 20, 0), NumCell(142)>>,
                           <<IsoZCell(Y0, M0, D0, 10, 40, 0), NumCell(50)>>>>),
      CsvFile(HeaderUtc, <<<<IsoZCell(Y0, M0, D0, 10, 0, 0), NumCell(87)>>,
                           <<IsoZCell(Y0, M0, D0, 10, 20, 0), EmptyCell>>,
                           <<IsoZCell(Y0, M0, D0, 10, 40, 0), NumCell(50)>>>>),
      CsvFile(HeaderUtc, <<<<IsoZCell(Y0, M0, D0, 10, 0, 0), NumCell(87)>>,
                           <<IsoZCell(Y0, M0, D0, 10, 20, 0), NumCell(87)>>>>),
      CsvFile(HeaderUtc, <<<<IsoZCell(Y0, M0, D0, 10, 40, 0), NumCell(50)>>>>),
      CsvFile(HeaderUtc, <<>>) }

NextSort ==
    \/ \E f \in SortFiles : LoadTideData(f)
    \/ \E f \in SortFiles : LegacyLoadTideData(f)
    \/ \E f \in SortFiles : UploadTideFile(f)
    \/ results = <<>> /\ PerformSearch
    \/ \E rs \in ResultLists : SearchDelivers(SortCenter, rs)
    \/ \E rs \in ResultLists : results = <<>> /\ WebSearch(SortCenter, rs)
    \/ SortByTide
    \/ WebSortByTide

SpecSort == Init /\ [][NextSort]_vars

(***************************************************************************)
(* Previews.  A place is a pair of world coordinates in half tiles of the  *)
(* AOI zoom, so that the int() of the tile computation truncates; the      *)
(* corners of the AOI kept beside the center in aoi_bounds are never read  *)
(* by the preview or by the export and are left out.  A longitude is kept  *)
(* in units of 360/2^17 degree and a latitude by the Mercator row it comes *)
(* from, in tiles of the AOI zoom: both conversions are strictly monotone. *)
(***************************************************************************)
AoiZoom == 17

FullGridSize == 15

LegacyFullZoom == 16

LegacyFullGridSize == 5

LegacySaveGridSize == 3

TileSize == 256

Gray == <<200, 200, 200>>

GridOptions == {1, 3, 5, 7, 9}

Pow2(n) == 2 ^ n

\* int((center_lon + 180.0) / 360.0 * n) and its twin for the latitude
TileOf(center, zoom) ==
    << center[1] \div Pow2(AoiZoom + 1 - zoom),
       center[2] \div Pow2(AoiZoom + 1 - zoom) >>

tile_x_to_lon(x, zoom) ==
    x * Pow2(AoiZoom - zoom) * 360 - 180 * Pow2(AoiZoom)

tile_y_to_lat(y, zoom) == <<"lat", y * Pow2(AoiZoom - zoom)>>

\* mutation: the loop over dx is the outer one
GridTilesColumnMajor(x_tile, y_tile, grid_size) ==
    LET offset == grid_size \div 2
        side == 2 * offset + 1
    IN  [i \in 1..(side * side) |->
            << x_tile + ((i - 1) \div side) - offset,
               y_tile + ((i - 1) % side) - offset >>]

\* for dy in range(-offset, offset + 1): for dx in range(-offset, offset + 1)
GridTiles(x_tile, y_tile, grid_size) ==
    LET offset == grid_size \div 2
        side == 2 * offset + 1
    IN  [i \in 1..(side * side) |->
            << x_tile + ((i - 1) % side) - offset,
               y_tile + ((i - 1) \div side) - offset >>]

\* zoom, tiles_to_fetch and display_grid_size of a preview
PreviewRequest(center, grid_size, mode) ==
    LET full == mode = "full"
        zoom == IF full /\ variant = "legacy" THEN LegacyFullZoom ELSE AoiZoom
        g == IF ~full THEN grid_size
             ELSE IF variant = "legacy" THEN LegacyFullGridSize
             ELSE FullGridSize
        t == TileOf(center, zoom)
    IN  [zoom |-> zoom, display_grid_size |-> g,
         tiles_to_fetch |-> GridTiles(t[1], t[2], g),
         center |-> center, preview_mode |-> mode]

\* mutation: the first request that raises ends the loop
FetchTilesAborting(tiles_to_fetch, outcome) ==
    LET raising == {i \in 1..Len(tiles_to_fetch) : outcome[i] = "raises"}
        last == IF raising = {} THEN Len(tiles_to_fetch)
                ELSE CHOOSE i \in raising : \A j \in raising : i <= j
    IN  [i \in 1..last |->
            IF outcome[i] = "200" THEN Some(tiles_to_fetch[i]) ELSE None]

\* the fetch loop, one entry of tile_images for every tile: the image for
\* status 200, None for another status, and None when requests.get or
\* Image.open raises
FetchTiles(tiles_to_fetch, outcome) ==
    [i \in 1..Len(tiles_to_fetch) |->
        IF outcome[i] = "raises" THEN None
        ELSE IF outcome[i] = "200" THEN Some(tiles_to_fetch[i])
        ELSE None]

\* any(tile_images)
AnyTile(tile_images) == \E i \in 1..Len(tile_images) : tile_images[i] # None

\* mutation: column and row are exchanged
PastePositionTransposed(i, g) == <<(i \div g) * TileSize, (i % g) * TileSize>>

\* x_pos, y_pos of the tile of enumeration index i
PastePosition(i, g) == <<(i % g) * TileSize, (i \div g) * TileSize>>

\* for i, tile_img in enumerate(tile_images): if tile_img:
\* mosaic.paste(tile_img, (x_pos, y_pos)) -- the pastes made, by the index
\* of the loop that made them
PasteTiles(tile_images, g) ==
    [i \in {j \in 0..(Len(tile_images) - 1) : tile_images[j + 1] # None} |->
        <<PastePosition(i, g), tile_images[i + 1][1]>>]

SeqMin(q) == CHOOSE m \in {q[i] : i \in 1..Len(q)} :
                \A i \in 1..Len(q) : m <= q[i]

SeqMax(q) == CHOOSE m \in {q[i] : i \in 1..Len(q)} :
                \A i \in 1..Len(q) : m >= q[i]

\* (min_lat, max_lat, min_lon, max_lon) of the tiles that were requested
MosaicBounds(tiles_to_fetch, zoom) ==
    LET tile_x_values == [i \in 1..Len(tiles_to_fetch) |-> tiles_to_fetch[i][1]]
        tile_y_values == [i \in 1..Len(tiles_to_fetch) |-> tiles_to_fetch[i][2]]
    IN  << tile_y_to_lat(SeqMax(tile_y_values) + 1, zoom),
           tile_y_to_lat(SeqMin(tile_y_values), zoom),
           tile_x_to_lon(SeqMin(tile_x_values), zoom),
           tile_x_to_lon(SeqMax(tile_x_values) + 1, zoom) >>

\* what the tile loop and the mosaic step of a preview come to: the
\* callback for the main loop (desktop) or the returned pair (web).  An
\* image is Image.new('RGB', (size, size), (200, 200, 200)) with the pastes
\* made on it; it remembers the tiles, the center and the mode it was
\* requested with.  The legacy
\* browser computes no bounds in its preview thread
\* ImageDraw.Draw(mosaic).ellipse(...): the circle is drawn into the image
DrawMarker(image) == [image EXCEPT !.marker = TRUE]

\* image is the mosaic after the circle was drawn on it; image_clean is the
\* copy the desktop programs take before drawing (the web app takes none)
LoadPreview(item_id, index, request, outcome) ==
    LET tile_images == FetchTiles(request.tiles_to_fetch, outcome)
        g == request.display_grid_size
        made == AnyTile(tile_images)
        mosaic == [item_id |-> item_id, zoom |-> request.zoom,
                   size |-> TileSize * g,
                   tiles_to_fetch |-> request.tiles_to_fetch,
                   background |-> Gray,
                   pastes |-> PasteTiles(tile_images, g),
                   marker |-> FALSE,
                   center |-> request.center,
                   preview_mode |-> request.preview_mode]
    IN  [ kind |-> IF made THEN "_display_preview" ELSE "_preview_error",
          error_msg |-> IF made THEN "" ELSE "Could not load tiles",
          image |-> IF made THEN Some(DrawMarker(mosaic)) ELSE None,
          image_clean |-> IF made /\ variant # "web" THEN Some(mosaic)
                          ELSE None,
          bounds |-> IF made /\ variant # "legacy"
                     THEN Some(MosaicBounds(request.tiles_to_fetch,
                                            request.zoom))
                     ELSE None,
          index |-> index,
          request |-> request,
          outcome |-> outcome,
          tile_images |-> tile_images ]

\* bounds written by _save_as_geotiff, computed again from the state
SaveBounds ==
    LET full == preview_mode = "full"
        zoom == IF full /\ variant = "legacy" THEN LegacyFullZoom ELSE AoiZoom
        grid_size == IF variant = "legacy"
                     THEN IF full THEN LegacyFullGridSize
                          ELSE LegacySaveGridSize
                     ELSE IF full THEN FullGridSize ELSE grid_size_var
        t == TileOf(aoi_bounds[1], zoom)
        offset == grid_size \div 2
    IN  << tile_y_to_lat(t[2] + offset + 1, zoom),
           tile_y_to_lat(t[2] - offset, zoom),
           tile_x_to_lon(t[1] - offset, zoom),
           tile_x_to_lon(t[1] + offset + 1, zoom) >>

Outcomes == {"200", "404", "raises"}

\* what the tile server does with the requests of a preview: all alike, or
\* all alike but the one at one place of the loop
Patterns ==
    {p \in [base : Outcomes, at : {0, 1, 5}, alt : Outcomes] :
        (p.at = 0) = (p.alt = p.base)}

PatternOutcome(p, n) == [i \in 1..n |-> IF i = p.at THEN p.alt ELSE p.base]

MaxInFlight == 2

\* previews are started while fewer than MaxInFlight are under way
RoomForPreview == Len(preview_threads) + Len(after_queue) < MaxInFlight

ValidIndex(index) == index >= 0 /\ index < Len(results)

\* show_preview: nothing for an index outside the results, a new thread
\* otherwise
ShowPreview(index) ==
    IF ValidIndex(index)
    THEN /\ preview_info_label' = "Loading preview"
         /\ preview_threads' =
               Append(preview_threads,
                      [item_id |-> results[index + 1], index |-> index,
                       request |-> None])
    ELSE UNCHANGED <<preview_info_label, preview_threads>>

\* on_result_select: a row of the results table is clicked; the index is
\* the number of the row
OnResultSelect(index) ==
    /\ variant \in {"app", "legacy"}
    /\ RoomForPreview
    /\ index >= 0 /\ index < Len(results_tree)
    /\ current_preview_index' = index
    /\ ShowPreview(index)
    /\ download_btn' = "normal"
    /\ UNCHANGED <<variant, restVars, results_tree, search_threads,
                   exposure_status, order_threads, since_reset, order_log,
                   tideVars, results, ui, results_before,
                   searchVars, grid_size_var, preview_mode,
                   current_preview_image, current_preview_bounds,
                   after_queue, saved, last_loaded, tile_server>>

\* toggle_preview_mode: the mode flips at once, the preview is reloaded
TogglePreviewMode ==
    /\ variant \in {"app", "legacy"}
    /\ RoomForPreview
    /\ preview_mode' = IF preview_mode = "aoi" THEN "full" ELSE "aoi"
    /\ ShowPreview(current_preview_index)
    /\ UNCHANGED <<variant, restVars, deskVars, tideVars, results, ui, results_before,
                   searchVars, grid_size_var, current_preview_index,
                   current_preview_image, current_preview_bounds,
                   after_queue, saved, last_loaded, tile_server>>

\* another entry of the Grid Size box is chosen (desktop: nothing is bound
\* to the box, only the variable changes)
SelectGridSize(g) ==
    /\ variant \in {"app", "legacy"}
    /\ g # grid_size_var
    /\ grid_size_var' = g
    /\ UNCHANGED <<variant, restVars, deskVars, tideVars, results, ui, results_before,
                   searchVars, preview_mode, current_preview_index,
                   current_preview_image, current_preview_bounds,
                   preview_info_label, preview_threads, after_queue, saved,
                   last_loaded, tile_server>>

RemoveAt(q, k) == SubSeq(q, 1, k - 1) \o SubSeq(q, k + 1, Len(q))

\* _load_preview_thread, first part: the AOI, the grid size and the mode
\* are read as they are when the thread gets to run
PreviewThreadStart(k) ==
    /\ k \in 1..Len(preview_threads)
    /\ preview_threads[k].request = None
    /\ aoi_bounds # None
    /\ preview_threads' =
          [preview_threads EXCEPT ![k].request =
              Some(PreviewRequest(aoi_bounds[1], grid_size_var, preview_mode))]
    /\ UNCHANGED <<variant, restVars, deskVars, tideVars, results, ui, results_before,
                   searchVars, grid_size_var, preview_mode,
                   current_preview_index, current_preview_image,
                   current_preview_bounds, preview_info_label, after_queue,
                   saved, last_loaded, tile_server>>

\* _load_preview_thread, second part: the tiles are fetched one after the
\* other, the mosaic is made and the callback handed to the main loop
PreviewThreadFinish(k) ==
    /\ k \in 1..Len(preview_threads)
    /\ preview_threads[k].request # None
    /\ LET t == preview_threads[k]
           outcome == PatternOutcome(tile_server,
                                     Len(t.request[1].tiles_to_fetch))
       IN  after_queue' =
              Append(after_queue,
                     LoadPreview(t.item_id, t.index, t.request[1], outcome))
    /\ preview_threads' = RemoveAt(preview_threads, k)
    /\ UNCHANGED <<variant, restVars, deskVars, tideVars, results, ui, results_before,
                   searchVars, grid_size_var, preview_mode,
                   current_preview_index, current_preview_image,
                   current_preview_bounds, preview_info_label, saved,
                   last_loaded, tile_server>>

\* the main loop runs the oldest callback: _display_preview or
\* _preview_error (the legacy browser keeps no bounds)
RunCallback ==
    /\ after_queue # <<>>
    /\ Head(after_queue).kind \in {"_display_preview", "_preview_error"}
    /\ LET cb == Head(after_queue)
       IN  IF cb.kind = "_display_preview"
           THEN /\ current_preview_image' = cb.image_clean
                /\ current_preview_bounds' =
                      IF variant = "app" THEN cb.bounds
                      ELSE current_preview_bounds
                /\ preview_info_label' = "Preview"
           ELSE /\ preview_info_label' = "Error loading preview"
                /\ current_preview_bounds' =
                      IF variant = "app" THEN None
                      ELSE current_preview_bounds
                /\ UNCHANGED current_preview_image
    /\ after_queue' = Tail(after_queue)
    /\ UNCHANGED <<variant, restVars, deskVars, tideVars, results, ui, results_before,
                   searchVars, grid_size_var, preview_mode,
                   current_preview_index, preview_threads, saved,
                   last_loaded, tile_server>>

\* save_preview_image with a .tif name, GDAL being installed
SavePreviewImage ==
    /\ variant \in {"app", "legacy"}
    /\ IF current_preview_image = None
       THEN /\ ui' = "No Preview"
            /\ UNCHANGED saved
       ELSE IF ~ValidIndex(current_preview_index)
       THEN UNCHANGED <<ui, saved>>
       ELSE /\ saved' = Some([image |-> current_preview_image[1],
                              bounds |-> SaveBounds])
            /\ ui' = "Image Saved"
    /\ UNCHANGED <<variant, restVars, deskVars, tideVars, results, results_before, searchVars,
                   grid_size_var, preview_mode, current_preview_index,
                   current_preview_image, current_preview_bounds,
                   preview_info_label, preview_threads, after_queue,
                   last_loaded,
                   tile_server>>

\* reset_search of the app
ResetSearch ==
    /\ variant = "app"
    /\ results' = <<>>
    /\ current_preview_index' = 0
    /\ current_preview_image' = None
    /\ current_preview_bounds' = None
    /\ preview_mode' = "aoi"
    /\ preview_info_label' = "Set AOI"
    /\ ui' = "Reset Complete"
    /\ results_before' = None
    /\ results_tree' = <<>>
    /\ download_btn' = "disabled"
    /\ since_reset' = TRUE
    /\ UNCHANGED <<variant, restVars, search_threads, exposure_status,
                   order_threads, order_log, tideVars, searchVars, grid_size_var,
                   preview_threads, after_queue, saved, last_loaded, tile_server>>

\* one run of the web script after the Grid Size box or the Toggle View
\* button was used: the preview is loaded and the PNG and the GeoTIFF
\* offered for download are built from the pair load_preview_tiles returned
WebRerun(g, toggle) ==
    /\ variant = "web"
    /\ grid_size_var' = g
    /\ preview_mode' = IF ~toggle THEN preview_mode
                       ELSE IF preview_mode = "aoi" THEN "full" ELSE "aoi"
    /\ IF aoi_bounds # None /\ current_preview_index < Len(results)
       THEN \E request \in {PreviewRequest(aoi_bounds[1], g, preview_mode')} :
            \E r \in {LoadPreview(results[current_preview_index + 1],
                                  current_preview_index, request,
                                  PatternOutcome(tile_server,
                                     Len(request.tiles_to_fetch)))} :
                /\ last_loaded' = Some(r)
                /\ current_preview_image' = r.image
                /\ current_preview_bounds' = r.bounds
                /\ preview_info_label' =
                      IF r.image # None THEN "Preview"
                      ELSE "Could not load preview image"
                /\ saved' = IF r.image = None THEN saved
                            ELSE Some([image |-> r.image[1],
                                       bounds |-> r.bounds[1]])
       ELSE UNCHANGED <<last_loaded, current_preview_image,
                        current_preview_bounds, preview_info_label, saved>>
    /\ UNCHANGED <<variant, restVars, deskVars, tideVars, results, ui, results_before,
                   searchVars, current_preview_index, preview_threads,
                   after_queue, tile_server>>

\* the scene a search finds when previews are studied
FoundScenes == <<UnderscoreId(Y0, M0, D0, 10, 0, 0)>>

\* the tile server is studied in each of its ways
InitServer == InitProgram /\ tile_server \in Patterns

\* no preview is being loaded
NoLoadInFlight == preview_threads = <<>> /\ after_queue = <<>>

\* the mosaic of one search: the grid is chosen, the search made, and the
\* scene found is previewed in both modes, one load at a time
NextMosaic ==
    \/ \E g \in GridOptions : aoi_bounds = None /\ SelectGridSize(g)
    \/ aoi_bounds = None /\ PerformSearch
    \/ SearchDelivers(SortCenter, FoundScenes)
    \/ \E g \in GridOptions :
          aoi_bounds = None /\ grid_size_var = g
             /\ WebSearch(SortCenter, FoundScenes)
    \/ NoLoadInFlight /\ OnResultSelect(0)
    \/ NoLoadInFlight /\ TogglePreviewMode
    \/ \E k \in 1..MaxInFlight : PreviewThreadStart(k)
    \/ \E k \in 1..MaxInFlight : PreviewThreadFinish(k)
    \/ RunCallback
    \/ \E toggle \in BOOLEAN : WebRerun(grid_size_var, toggle)

SpecMosaic == InitServer /\ [][NextMosaic]_vars

\* no GeoTIFF has been written yet
BeforeExport == saved = None

\* previews, searches, changes of grid and of mode in any order up to the
\* first export of the desktop browsers, one preview being loaded at a
\* time, the tile server answering every request
NextPreview ==
    \/ BeforeExport /\ PerformSearch
    \/ \E c \in Centers : BeforeExport /\ SearchDelivers(c, FoundScenes)
    \/ \E c \in Centers : WebSearch(c, FoundScenes)
    \/ BeforeExport /\ NoLoadInFlight /\ OnResultSelect(0)
    \/ BeforeExport /\ NoLoadInFlight /\ TogglePreviewMode
    \/ \E g \in GridOptions : BeforeExport /\ SelectGridSize(g)
    \/ \E k \in 1..MaxInFlight : BeforeExport /\ PreviewThreadStart(k)
    \/ \E k \in 1..MaxInFlight : BeforeExport /\ PreviewThreadFinish(k)
    \/ BeforeExport /\ RunCallback
    \/ BeforeExport /\ SavePreviewImage
    \/ BeforeExport /\ ResetSearch
    \/ \E g \in GridOptions, toggle \in BOOLEAN : WebRerun(g, toggle)

SpecPreview == Init /\ [][NextPreview]_vars

(***************************************************************************)
(* Properties of the lookup.  The scene times are taken from the           *)
(* identifiers the catalog produced, and a slot is the UTC instant, in     *)
(* minutes, of a ten-minute boundary.                                      *)
(***************************************************************************)
\* the UTC minute of h:mi on the day of the model
MinuteOf(h, mi) == (YmdToOrd(Y0, M0, D0) * 24 + h) * 60 + mi

\* the ten-minute slot a scene time falls in
SlotOf(t) == MinuteOf(t[1], t[2]) - (t[2] % 10)

\* the table key of a slot: the aware UTC datetime of that instant
SlotKey(m) ==
    [ord |-> m \div 1440, hour |-> (m % 1440) \div 60, minute |-> m % 60,
     second |-> 0, aware |-> TRUE]

Populated(td, m) == SlotKey(m) \in DOMAIN td

\* the height of the first populated slot of a tuple of slots, None if none
RECURSIVE FirstPopulated(_, _, _)
FirstPopulated(td, slots, i) ==
    IF i > Len(slots) THEN None
    ELSE IF Populated(td, slots[i]) THEN Some(td[SlotKey(slots[i])])
    ELSE FirstPopulated(td, slots, i + 1)

AllSceneTimes == SceneTimes \cup {<<10, 22, 44>>, <<0, 22, 44>>}

\* the last lookup was made for a scene acquired at time t
LookedUp(t) ==
    lookup_id \in { Some(UnderscoreId(Y0, M0, D0, t[1], t[2], t[3])),
                    Some(BareId(Y0, M0, D0, t[1], t[2], t[3])) }

\* C1 as claimed: the slots are probed in the order R-10min, R, R+10min and
\* the height of the first populated one is returned, absent when none is
C1_ProbeOrderAsClaimed ==
    \A t \in AllSceneTimes :
        LookedUp(t) =>
            lookup_result =
                FirstPopulated(tide_data,
                               <<SlotOf(t) - 10, SlotOf(t), SlotOf(t) + 10>>,
                               1)

\* C1 amended: the slot R of the scene itself is probed first, then R-10min,
\* then R+10min; the height of the first populated slot in that order is
\* returned, and the result is absent exactly when none of the three is
C1_ExactSlotFirst ==
    \A t \in AllSceneTimes :
        LookedUp(t) =>
            /\ lookup_result =
                  FirstPopulated(tide_data,
                                 <<SlotOf(t), SlotOf(t) - 10, SlotOf(t) + 10>>,
                                 1)
            /\ (lookup_result = None) <=>
                  \A m \in {SlotOf(t) - 10, SlotOf(t), SlotOf(t) + 10} :
                      ~Populated(tide_data, m)

\* a lookup at 10:15:30 in a table holding 10:00 and 10:10 with different
\* heights returned the height of 10:10
C1_Witness ==
    /\ LookedUp(<<10, 15, 30>>)
    /\ Populated(tide_data, MinuteOf(10, 0))
    /\ Populated(tide_data, MinuteOf(10, 10))
    /\ tide_data[SlotKey(MinuteOf(10, 0))]
          # tide_data[SlotKey(MinuteOf(10, 10))]
    /\ lookup_result = Some(tide_data[SlotKey(MinuteOf(10, 10))])

\* the table holds exactly the slots 10:00 and 10:20
C2_Table ==
    DOMAIN tide_data = {SlotKey(MinuteOf(10, 0)), SlotKey(MinuteOf(10, 20))}

\* C2 as claimed: with only 10:00 and 10:20 populated, a scene deriving to
\* 10:10 looks up to absent and one deriving to 10:00..10:09:59 to the
\* height of 10:00
C2_AbsentAtTenAsClaimed ==
    C2_Table =>
        \A t \in AllSceneTimes :
            LookedUp(t) /\ t[1] = 10 =>
                /\ t[2] = 10 => lookup_result = None
                /\ t[2] \in 0..9 =>
                      lookup_result =
                          Some(tide_data[SlotKey(MinuteOf(10, 0))])

\* C2 amended: with only 10:00 and 10:20 populated, a scene deriving to
\* 10:10..10:19:59 looks up to the height of 10:00 (the R-10min probe), as
\* does a scene deriving to 10:00..10:09:59
C2_EarlierSlotAnswers ==
    C2_Table =>
        \A t \in AllSceneTimes :
            LookedUp(t) /\ t[1] = 10 /\ t[2] \in 0..19 =>
                lookup_result = Some(tide_data[SlotKey(MinuteOf(10, 0))])

\* a scene of 10:10:00 was looked up in such a table and got the height of
\* 10:00, which is not the height of 10:20
C2_Witness ==
    /\ C2_Table
    /\ LookedUp(<<10, 10, 0>>)
    /\ lookup_result = Some(tide_data[SlotKey(MinuteOf(10, 0))])
    /\ tide_data[SlotKey(MinuteOf(10, 0))]
          # tide_data[SlotKey(MinuteOf(10, 20))]

(***************************************************************************)
(* Properties of the sort.                                                 *)
(***************************************************************************)
\* the looked-up height of the i-th result
HeightAt(i) == get_tide_height_for_item(results[i], tide_data)

\* the position a scene had in the list handed to the sort
RECURSIVE PositionIn(_, _, _)
PositionIn(q, x, i) ==
    IF i > Len(q) THEN 0
    ELSE IF q[i] = x THEN i ELSE PositionIn(q, x, i + 1)

PositionBefore(x) == PositionIn(results_before[1], x, 1)

IsNumber(h) == h # None /\ h[1] # NaN

\* C3: after sort_by_tide the list is a permutation of the list it was
\* given, heights ascend, every scene without a height comes after every
\* scene with one, and scenes of equal height (and the scenes without a
\* height) keep their relative order
C3_SortedStableAbsentLast ==
    results_before # None =>
        /\ Len(results) = Len(results_before[1])
        /\ {results[i] : i \in 1..Len(results)}
              = {results_before[1][i] : i \in 1..Len(results)}
        /\ \A i, j \in 1..Len(results) :
              i < j =>
                  /\ IsNumber(HeightAt(i)) /\ IsNumber(HeightAt(j))
                        => HeightAt(i)[1] <= HeightAt(j)[1]
                  /\ ~(HeightAt(i) = None /\ HeightAt(j) # None)
                  /\ HeightAt(i) = HeightAt(j)
                        => PositionBefore(results[i])
                              < PositionBefore(results[j])

\* the table holds no NaN
NoNaN == \A k \in DOMAIN tide_data : tide_data[k] # NaN

\* what remains of C3 in the tables without NaN (shown for comparison)
C3_HoldsWithoutNaN == NoNaN => C3_SortedStableAbsentLast

(***************************************************************************)
(* Properties of the load.  The rows a file is said to hold are read off   *)
(* its cells: a row parses when its timestamp is written in the format of  *)
(* the file's convention and names a real date and time, and its height is *)
(* a number; its instant is the UTC minute it names.                       *)
(***************************************************************************)
FailureMessages == {"Load Error", "error", "warning"}

\* the last load was of a CSV file
CsvLoaded == last_file # None /\ last_file[1].ext = "csv"

RowParses(branch, row) ==
    /\ row[2].k = "num"
    /\ IF branch = "aest"
       THEN /\ row[1].k = "dmy"
            /\ row[1].mo \in 1..12
            /\ row[1].d \in 1..DaysInMonth(row[1].y, row[1].mo)
       ELSE row[1].k = "iso"

\* the UTC minute a row names: Brisbane civil time is ten hours ahead
RowInstant(branch, row) ==
    (YmdToOrd(row[1].y, row[1].mo, row[1].d) * 24 + row[1].h) * 60
      + row[1].mi - (IF branch = "aest" THEN 600 ELSE 0)

RowSlot(branch, row) ==
    LET m == RowInstant(branch, row) IN m - (m % 10)

\* the rows of the last file that parse, by position
ParsingRows ==
    LET f == last_file[1]
    IN  {i \in 1..Len(f.rows) : RowParses(CsvBranch(f.header), f.rows[i])}

\* the last row of the last file that parses and falls in slot m, 0 if none
LastRowOfSlot(m) ==
    LET f == last_file[1]
        hits == {i \in ParsingRows : RowSlot(CsvBranch(f.header), f.rows[i]) = m}
    IN  IF hits = {} THEN 0 ELSE CHOOSE i \in hits : \A j \in hits : j <= i

KeyMinute(k) == (k.ord * 24 + k.hour) * 60 + k.minute

\* C7: after a load that fails the table is still the table that was in
\* place before it (the only complete table there is), not an empty or
\* partly filled one
C7_FailedLoadKeepsOldTable ==
    (last_file # None /\ ui \in FailureMessages) => tide_data = tide_before

\* C8: after a successful load in the app or the web app every key is a UTC
\* instant on a ten-minute boundary and no two keys name the same slot; for
\* a CSV file the height of a slot is that of the last parsing row of the
\* file that rounds down to it, and every entry comes from a row of this file
C8_KeysRoundedLastRowWins ==
    (last_file # None /\ variant \in {"app", "web"}
       /\ ui \notin FailureMessages) =>
        /\ \A k \in DOMAIN tide_data :
              k.aware /\ k.minute % 10 = 0 /\ k.second = 0
        /\ \A k1, k2 \in DOMAIN tide_data :
              KeyMinute(k1) = KeyMinute(k2) => k1 = k2
        /\ CsvLoaded =>
              \A k \in DOMAIN tide_data :
                 /\ LastRowOfSlot(KeyMinute(k)) # 0
                 /\ tide_data[k]
                       = last_file[1].rows[LastRowOfSlot(KeyMinute(k))][2].v

\* C9: in the CSV loaders of the app and of the web app the reported count
\* is the number of rows that parse, a row that does not parse inserts
\* nothing, and the rows after it are still read
C9_BadRowsSkippedAlone ==
    (CsvLoaded /\ variant \in {"app", "web"}
       /\ CsvBranch(last_file[1].header) # "none") =>
        /\ last_count = Cardinality(ParsingRows)
        /\ ui \notin FailureMessages =>
              {KeyMinute(k) : k \in DOMAIN tide_data}
                 = {RowSlot(CsvBranch(last_file[1].header),
                            last_file[1].rows[i]) : i \in ParsingRows}

\* a field name with blanks and byte order marks removed from both ends,
\* in lower case
RECURSIVE TrimField(_)
TrimField(s) ==
    IF Len(s) > 0 /\ s[1] \in {" ", "BOM"} THEN TrimField(Tail(s))
    ELSE IF Len(s) > 0 /\ s[Len(s)] \in {" ", "BOM"}
    THEN TrimField(SubSeq(s, 1, Len(s) - 1))
    ELSE LowerStr(s)

HeaderNames(header) == {TrimField(header[i]) : i \in 1..Len(header)}

HeaderRecognised(header) ==
    /\ str_datetime \in HeaderNames(header)
    /\ str_height \in HeaderNames(header)
          \/ str_tide_height \in HeaderNames(header)

\* the app installed the last file as the loaded table
Accepted ==
    /\ ui = "Tide Data Loaded"
    /\ tide_file_loaded = last_file
    /\ sort_tide_btn = "normal"

\* C10: the app accepts a CSV only if its header holds datetime with
\* height or tide_height and at least one row parses; a file with neither
\* pair, or with no parsing row, is rejected with the error message and is
\* not installed
C10_AcceptedOnlyIfRecognised ==
    (CsvLoaded /\ variant = "app") =>
        /\ Accepted =>
              /\ HeaderRecognised(last_file[1].header)
              /\ ParsingRows # {}
        /\ (~HeaderRecognised(last_file[1].header) \/ ParsingRows = {}) =>
              /\ ui = "Load Error"
              /\ tide_file_loaded # last_file
              /\ tide_data = EmptyDict

\* the app accepted a file whose header carries a byte order mark, capitals
\* and blanks, and rejected one with no parsing row
C10_Witness ==
    /\ CsvLoaded /\ variant = "app"
    /\ \/ /\ Accepted
          /\ last_file[1].header # HeaderUtc
          /\ last_file[1].header # HeaderAest
       \/ /\ ui = "Load Error"
          /\ HeaderRecognised(last_file[1].header)
          /\ Len(last_file[1].rows) > 0
          /\ ParsingRows = {}

(***************************************************************************)
(* Properties of the preview.  A load is what one run of the tile loop and *)
(* of the mosaic step came to: a callback waiting for the main loop, or    *)
(* the pair the web app got back.                                          *)
(***************************************************************************)
Loads ==
    {after_queue[i] : i \in 1..Len(after_queue)}
       \cup (IF last_loaded = None THEN {} ELSE {last_loaded[1]})

\* the requests of a load that were answered with status 200 and an image
Fetched(load) ==
    {i \in 1..Len(load.request.tiles_to_fetch) : load.outcome[i] = "200"}

\* C4: whatever the requests of a desktop load came to, a mosaic is made when at
\* least one tile was fetched, the load ends in the error 'Could not load
\* tiles' exactly when no tile was fetched, and every tile of the grid was
\* asked for, the ones after a failed request included
C4_MosaicUnlessAllTilesAbsent ==
    \A n \in 1..Len(after_queue) :
        LET load == after_queue[n]
            g == load.request.display_grid_size
        IN  /\ Len(load.request.tiles_to_fetch) = g * g
            /\ Len(load.tile_images) = g * g
            /\ Fetched(load) # {} =>
                  load.kind = "_display_preview" /\ load.image # None
            /\ (load.kind = "_preview_error"
                  /\ load.error_msg = "Could not load tiles")
                  <=> Fetched(load) = {}

\* a desktop load whose first request raised made a mosaic of the tiles
\* fetched after it
C4_Witness ==
    \E i \in 1..Len(after_queue) :
        /\ after_queue[i].outcome[1] = "raises"
        /\ after_queue[i].kind = "_display_preview"
        /\ Cardinality(Fetched(after_queue[i])) > 1

\* what an image shows on the 256-pixel block at p: the last tile pasted
\* there, the background if there is none
BlockAt(image, p) ==
    LET pasted == {i \in DOMAIN image.pastes : image.pastes[i][1] = p}
    IN  IF pasted = {} THEN image.background
        ELSE image.pastes[CHOOSE i \in pasted : \A j \in pasted : j <= i][2]

\* C5: in the mosaic of a load the tile at offset (dx, dy) from the center
\* tile is on column (dx + g div 2) * 256 and row (dy + g div 2) * 256, it
\* is the tile of index i = row * g + column of the loop, and a block is
\* gray (200, 200, 200) exactly when its own tile was not fetched; the
\* mosaic depends on which tiles were fetched only
C5_TilesPlacedByIndex ==
    \A load \in Loads :
        load.image # None =>
            LET g == load.request.display_grid_size
                half == g \div 2
                center == TileOf(aoi_bounds[1], load.request.zoom)
                image == load.image[1]
            IN  /\ image.size = 256 * g
                /\ \A dx \in (-half)..half, dy \in (-half)..half :
                      LET column == dx + half
                          row == dy + half
                          i == row * g + column
                          tile == <<center[1] + dx, center[2] + dy>>
                      IN  /\ load.request.tiles_to_fetch[i + 1] = tile
                          /\ column = i % g /\ row = i \div g
                          /\ BlockAt(image, <<column * 256, row * 256>>)
                                = IF (i + 1) \in Fetched(load) THEN tile
                                  ELSE <<200, 200, 200>>

\* a mosaic of more than one tile with a gray block and, off its diagonal,
\* a tile
C5_Witness ==
    \E load \in Loads :
        /\ load.image # None
        /\ load.request.display_grid_size >= 3
        /\ 2 \in Fetched(load)
        /\ Fetched(load) # 1..Len(load.request.tiles_to_fetch)

\* the outer edges of a set of tiles, as (min_lat, max_lat, min_lon, max_lon)
OuterEdges(tiles, zoom) ==
    LET xs == {tiles[i][1] : i \in 1..Len(tiles)}
        ys == {tiles[i][2] : i \in 1..Len(tiles)}
        minTileX == CHOOSE x \in xs : \A o \in xs : x <= o
        maxTileX == CHOOSE x \in xs : \A o \in xs : x >= o
        minTileY == CHOOSE y \in ys : \A o \in ys : y <= o
        maxTileY == CHOOSE y \in ys : \A o \in ys : y >= o
    IN  << tile_y_to_lat(maxTileY + 1, zoom), tile_y_to_lat(minTileY, zoom),
           tile_x_to_lon(minTileX, zoom), tile_x_to_lon(maxTileX + 1, zoom) >>

\* C6: the bounds handed to the display with a mosaic (the legacy browser
\* hands none), the bounds kept with
\* the displayed mosaic and the bounds written by the GeoTIFF export of a
\* mosaic are the outer edges of the tiles that were requested for that
\* mosaic, whatever was toggled, chosen or searched since it was loaded
C6_BoundsAreEdgesOfRequestedTiles ==
    /\ \A load \in Loads :
          (load.image # None /\ variant # "legacy") =>
             load.bounds = Some(OuterEdges(load.request.tiles_to_fetch,
                                           load.request.zoom))
    /\ (current_preview_image # None /\ current_preview_bounds # None) =>
          current_preview_bounds[1]
             = OuterEdges(current_preview_image[1].tiles_to_fetch,
                          current_preview_image[1].zoom)
    /\ saved # None =>
          saved[1].bounds = OuterEdges(saved[1].image.tiles_to_fetch,
                                       saved[1].image.zoom)

\* the part of C6 about the display alone
C6_DisplayedBoundsOnly ==
    /\ \A load \in Loads :
          (load.image # None /\ variant # "legacy") =>
             load.bounds = Some(OuterEdges(load.request.tiles_to_fetch,
                                           load.request.zoom))
    /\ (current_preview_image # None /\ current_preview_bounds # None) =>
          current_preview_bounds[1]
             = OuterEdges(current_preview_image[1].tiles_to_fetch,
                          current_preview_image[1].zoom)

(***************************************************************************)
(* Properties of a lookup in the table of the file loaded last.            *)
(***************************************************************************)
\* the last load installed the table of a CSV file of the given convention
\* in the app or the web app
LoadedCsvOf(branch) ==
    /\ CsvLoaded
    /\ variant \in {"app", "web"}
    /\ ui \notin FailureMessages
    /\ CsvBranch(last_file[1].header) = branch

\* C11: in a datetime, tide_height file a timestamp is UTC with or without
\* the Z: a scene that derives to the slot of a row of the file looks up the
\* height of the last row of that slot, whether that row carries the Z or
\* not
C11_ZlessReadAsUtc ==
    LoadedCsvOf("utc") =>
        \A t \in AllSceneTimes :
            (LookedUp(t) /\ LastRowOfSlot(SlotOf(t)) # 0) =>
                lookup_result
                    = Some(last_file[1].rows[LastRowOfSlot(SlotOf(t))][2].v)

\* every timestamp of the file loaded last carries the Z
AllRowsZ ==
    \A i \in 1..Len(last_file[1].rows) :
        last_file[1].rows[i][1].k = "iso" => last_file[1].rows[i][1].z

\* the part of C11 about files whose timestamps all carry the Z
C11_HoldsWithZ == (CsvLoaded /\ AllRowsZ) => C11_ZlessReadAsUtc

(***************************************************************************)
(* Lookups in a table loaded from a DateTime, Height file.  The rows are   *)
(* Brisbane civil times whose UTC instants fall on the same day, on the    *)
(* day before, in the month before and in the year before.                 *)
(***************************************************************************)
AestLookupRows ==
    { <<DmyCell(D0, M0, Y0, 20, 5), NumCell(110)>>,
      <<DmyCell(D0, M0, Y0, 20, 0), NumCell(87)>>,
      <<DmyCell(D0, M0, Y0, 5, 25), NumCell(64)>>,
      <<DmyCell(1, M0 + 1, Y0, 6, 20), NumCell(120)>>,
      <<DmyCell(1, 1, Y0, 9, 59), NumCell(33)>>,
      <<DmyCell(D0, M0, Y0, 20, 0), TextCell>> }

AestLookupFiles ==
    {CsvFile(HeaderAest, b) : b \in SeqsUpTo(AestLookupRows, MaxRows)}

AestReloadFiles ==
    { CsvFile(HeaderAest, <<<<DmyCell(D0, M0, Y0, 5, 25), NumCell(41)>>>>),
      CsvFile(HeaderAest, <<<<DmyCell(D0, M0, Y0, 20, 0), TextCell>>>>) }

OfferedAestFiles ==
    IF last_file = None THEN AestLookupFiles ELSE AestReloadFiles

\* the scenes looked up: year, month, day, hour, minute, second (UTC)
AestScenes ==
    { <<Y0, M0, D0, 10, 9, 59>>, <<Y0, M0, D0, 10, 0, 0>>,
      <<Y0, M0, D0 - 1, 19, 22, 44>>, <<Y0, M0, D0 - 1, 19, 30, 0>>,
      <<Y0, M0, 31, 20, 20, 0>>, <<Y0 - 1, 12, 31, 23, 55, 1>>,
      <<Y0, M0, D0, 20, 0, 0>>, <<Y0, M0, D0, 5, 25, 0>> }

AestSceneIds ==
    {UnderscoreId(sc[1], sc[2], sc[3], sc[4], sc[5], sc[6]) :
        sc \in AestScenes}

NextAest ==
    \/ \E f \in OfferedAestFiles : LoadTideData(f)
    \/ \E f \in OfferedAestFiles : UploadTideFile(f)
    \/ \E id \in AestSceneIds : Lookup(id)

SpecAest == Init /\ [][NextAest]_vars

\* the ten-minute slot (UTC minute) a scene falls in
SceneSlot(sc) ==
    (YmdToOrd(sc[1], sc[2], sc[3]) * 24 + sc[4]) * 60 + sc[5] - (sc[5] % 10)

LookedUpScene(sc) ==
    lookup_id = Some(UnderscoreId(sc[1], sc[2], sc[3], sc[4], sc[5], sc[6]))

TxtLoaded ==
    /\ last_file # None
    /\ last_file[1].ext = "txt"
    /\ variant \in {"app", "web"}

\* the first line that starts with date and contains height, 0 if none
FirstHeader ==
    LET hs == {i \in 1..Len(last_file[1].rows) :
                  IsTxtHeader(last_file[1].rows[i])}
    IN  IF hs = {} THEN 0 ELSE CHOOSE i \in hs : \A j \in hs : i <= j

\* a line gives a record: a date and a time first, a number last
TxtLineParses(line) ==
    /\ Len(line) >= 3
    /\ line[1].k = "date"
    /\ line[1].mo \in 1..12
    /\ line[1].d \in 1..DaysInMonth(line[1].y, line[1].mo)
    /\ line[2].k = "time"
    /\ line[Len(line)].k = "num"

\* the slot of a line, its date and time being UTC
TxtSlot(line) ==
    (YmdToOrd(line[1].y, line[1].mo, line[1].d) * 24 + line[2].h) * 60
       + line[2].mi - (line[2].mi % 10)

\* the lines after the first header that give a record
TxtDataLines ==
    {i \in 1..Len(last_file[1].rows) :
        /\ FirstHeader # 0
        /\ i > FirstHeader
        /\ TxtLineParses(last_file[1].rows[i])}

\* the last data line of slot m
LastTxtLineOfSlot(m) ==
    LET hits == {i \in TxtDataLines : TxtSlot(last_file[1].rows[i]) = m}
    IN  IF hits = {} THEN 0 ELSE CHOOSE i \in hits : \A j \in hits : j <= i

\* C13: the text parser ignores the lines before the first header line; of
\* every later line the first two tokens are the date and time, in UTC,
\* and the last token the height, however many columns lie between; a file
\* without a header line fails to load and counts no record
C13_TextLinesAfterHeader ==
    TxtLoaded =>
        /\ FirstHeader = 0 => (ui \in FailureMessages /\ last_count = 0)
        /\ FirstHeader # 0 => last_count = Cardinality(TxtDataLines)
        /\ ui \notin FailureMessages =>
              /\ {KeyMinute(k) : k \in DOMAIN tide_data}
                    = {TxtSlot(last_file[1].rows[i]) : i \in TxtDataLines}
              /\ \A k \in DOMAIN tide_data :
                    /\ k.aware
                    /\ tide_data[k]
                         = LET line == last_file[1].rows[
                                          LastTxtLineOfSlot(KeyMinute(k))]
                           IN  line[Len(line)].v

\* a file with a data line before its header and, after it, a line with a
\* column between the time and the height was loaded as one record
C13_Witness ==
    /\ TxtLoaded
    /\ ui \notin FailureMessages
    /\ FirstHeader = 2
    /\ TxtLineParses(last_file[1].rows[1])
    /\ Len(last_file[1].rows) = 3
    /\ Len(last_file[1].rows[3]) = 4
    /\ last_count = 1
    /\ \E k \in DOMAIN tide_data : tide_data[k] = 95

(***************************************************************************)
(* Properties of the identifiers.                                          *)
(***************************************************************************)
AllDigits(s) == \A i \in 1..Len(s) : s[i] \in Digits

\* the date and the time segment of an identifier: the first two parts of
\* the underscore form, the characters 1-8 and 9-14 of the bare form
Segments(id) ==
    IF \E i \in 1..Len(id) : id[i] = "_"
    THEN SplitFirstTwo(id, "_")
    ELSE <<SubSeq(id, 1, Min2(8, Len(id))), SubSeq(id, 9, Min2(14, Len(id)))>>

\* a date segment of exactly eight digits and a time segment of exactly
\* six, naming a calendar date and a time of day
WellFormedId(id) ==
    LET d == Segments(id)[1]
        t == Segments(id)[2]
    IN  /\ Len(d) = 8 /\ AllDigits(d)
        /\ Len(t) = 6 /\ AllDigits(t)
        /\ DigitsValue(SubSeq(d, 1, 4)) >= 1
        /\ DigitsValue(SubSeq(d, 5, 6)) \in 1..12
        /\ DigitsValue(SubSeq(d, 7, 8))
              \in 1..DaysInMonth(DigitsValue(SubSeq(d, 1, 4)),
                                 DigitsValue(SubSeq(d, 5, 6)))
        /\ DigitsValue(SubSeq(t, 1, 2)) < 24
        /\ DigitsValue(SubSeq(t, 3, 4)) < 60
        /\ DigitsValue(SubSeq(t, 5, 6)) < 60

\* C14: the lookup of a malformed identifier (a segment that is not
\* numeric or not of eight resp. six characters, a bare identifier of
\* fewer than fourteen, digits that name no date or time) is absent,
\* whatever the table holds
C14_MalformedIsAbsent ==
    (lookup_id # None /\ ~WellFormedId(lookup_id[1])) => lookup_result = None

\* the part of C14 about identifiers from which no date and time can be
\* taken at all
C14_UnreadableIsAbsent ==
    (lookup_id # None /\ ItemDatetime(lookup_id[1]) = None) =>
        lookup_result = None

\* C15: the underscore form and the bare form of the identifier of a scene
\* look up to the same height in every table, and the lookup made for
\* either form returned it; a scene of 00:22:44 in a table holding only
\* 00:20 -> 1.42 resolves to 1.42
C15_BothFormsSameTimestamp ==
    /\ \A t \in AllSceneTimes :
          /\ get_tide_height_for_item(
                 UnderscoreId(Y0, M0, D0, t[1], t[2], t[3]), tide_data)
               = get_tide_height_for_item(
                     BareId(Y0, M0, D0, t[1], t[2], t[3]), tide_data)
          /\ ItemDatetime(UnderscoreId(Y0, M0, D0, t[1], t[2], t[3]))
               = ItemDatetime(BareId(Y0, M0, D0, t[1], t[2], t[3]))
          /\ LookedUp(t) =>
                lookup_result
                   = get_tide_height_for_item(
                         BareId(Y0, M0, D0, t[1], t[2], t[3]), tide_data)
    /\ (LookedUp(<<0, 22, 44>>)
          /\ tide_data = SlotKey(MinuteOf(0, 20)) :> 142) =>
             lookup_result = Some(142)

\* the identifier 20250530_002244_03_24bd was looked up in the table that
\* holds only 2025-05-30T00:20:00Z -> 1.42 and got 1.42
C15_Witness ==
    /\ lookup_id = Some(UnderscoreId(Y0, M0, D0, 0, 22, 44))
    /\ tide_data = SlotKey(MinuteOf(0, 20)) :> 142
    /\ lookup_result = Some(142)

(***************************************************************************)
(* Properties of the export.                                               *)
(***************************************************************************)
\* C16: the image written by a save or offered for download carries no
\* center marker, in the desktop app and in the web app
C16_ExportsCarryNoMarker ==
    (saved # None /\ variant \in {"app", "web"}) => ~saved[1].image.marker

\* the part of C16 about the desktop programs, whose display keeps the
\* clean copy
C16_DesktopExportsClean ==
    variant \in {"app", "legacy"} =>
        /\ saved # None => ~saved[1].image.marker
        /\ current_preview_image # None => ~current_preview_image[1].marker

(***************************************************************************)
(* Searches with good and bad center entries, and a row selected in        *)
(* between.                                                                *)
(***************************************************************************)
SearchLists ==
    { <<>>, FoundScenes,
      <<UnderscoreId(Y0, M0, D0, 10, 0, 0),
        UnderscoreId(Y0, M0, D0, 10, 20, 0)>>,
      <<UnderscoreId(Y0, M0, D0, 10, 20, 0),
        UnderscoreId(Y0, M0, D0, 10, 0, 0)>> }

NextSearch ==
    \/ PerformSearch
    \/ \E center \in Centers, rs \in SearchLists : SearchDelivers(center, rs)
    \/ SearchRejectsInput
    \/ \E index \in 0..1 : OnResultSelect(index)

SpecSearch == Init /\ [][NextSearch]_vars

\* C17: a search started with a center entry that is no number ends as an
\* input error and changes nothing: the results and their table, the index
\* of the preview and the AOI are as they were before the search, and the
\* Search button can be used again
C17_RejectedSearchChangesNothing ==
    (search_log # None /\ search_log[1].rejected) =>
        search_log[1].after = search_log[1].before

\* the part of C17 about the AOI, which a rejected search leaves alone
C17_RejectedSearchKeepsAoi ==
    (search_log # None /\ search_log[1].rejected) =>
        search_log[1].after.aoi_bounds = search_log[1].before.aoi_bounds

(***************************************************************************)
(* Switching the preview while an earlier one is still being loaded: two   *)
(* scenes were found, rows are selected and the mode is toggled while      *)
(* threads run, and the threads finish in any order.                       *)
(***************************************************************************)
TwoScenes ==
    <<UnderscoreId(Y0, M0, D0, 10, 0, 0), UnderscoreId(Y0, M0, D0, 10, 20, 0)>>

NextSwitch ==
    \/ aoi_bounds = None /\ PerformSearch
    \/ aoi_bounds = None /\ SearchDelivers(SortCenter, TwoScenes)
    \/ \E index \in 0..1 : OnResultSelect(index)
    \/ TogglePreviewMode
    \/ \E k \in 1..MaxInFlight : PreviewThreadStart(k)
    \/ \E k \in 1..MaxInFlight : PreviewThreadFinish(k)
    \/ RunCallback

SpecSwitch == Init /\ [][NextSwitch]_vars

\* the preview asked for last: the row and the mode that are current
LastRequested ==
    [item_id |-> results[current_preview_index + 1],
     request |-> PreviewRequest(aoi_bounds[1], grid_size_var, preview_mode)]

\* the stored preview is the one asked for last
ShowsLastRequested ==
    /\ current_preview_image # None
    /\ current_preview_image[1].item_id = LastRequested.item_id
    /\ current_preview_image[1].zoom = LastRequested.request.zoom
    /\ current_preview_image[1].tiles_to_fetch
          = LastRequested.request.tiles_to_fetch

\* C18: a load that was still running when the preview was switched is
\* abandoned: once every load has finished and every callback has run,
\* the preview displayed and stored is the one asked for last, in whatever
\* order the threads finished
C18_LastRequestedPreviewWins ==
    (variant \in {"app", "legacy"} /\ NoLoadInFlight
        /\ current_preview_image # None) => ShowsLastRequested

(***************************************************************************)
(* Orders.  The clip polygon of an order is made from self.aoi_bounds,     *)
(* which the search thread wrote; the preview thread takes the center from *)
(* the same tuple but the grid size from the dropdown.                     *)
(***************************************************************************)
\* update_aoi_from_map: the click rewrites the latitude and longitude
\* entries (which the next search reads), the AOI computed by
\* calculate_aoi is dropped, and the label tells what to do next
UpdateAoiFromMap(center) ==
    /\ variant = "app"
    /\ preview_info_label' =
          IF results # <<>> THEN "AOI updated" ELSE "AOI center set"
    /\ UNCHANGED <<variant, restVars, deskVars, tideVars, results, ui, results_before,
                   searchVars, grid_size_var, preview_mode,
                   current_preview_index, current_preview_image,
                   current_preview_bounds, preview_threads, after_queue,
                   saved, last_loaded, tile_server>>

\* orders are started while fewer than MaxOrders have been started
MaxOrders == 2

\* download_selected and the request built by _order_and_download_thread,
\* the question being answered with yes: the Download button is disabled
\* and the thread started; beside the request the preview on display is
\* noted
DownloadSelected(clip_enabled) ==
    /\ variant = "app"
    /\ download_btn = "normal"
    /\ Len(order_log) < MaxOrders
    /\ ValidIndex(current_preview_index)
    /\ IF aoi_bounds = None
       THEN /\ ui' = "No AOI"
            /\ UNCHANGED <<order_request, download_btn, order_threads,
                           order_log>>
       ELSE /\ download_btn' = "disabled"
            /\ order_threads' =
                  Append(order_threads,
                         [id |-> Len(order_log) + 1, pc |-> "create",
                          elapsed |-> 0])
            /\ order_log' =
                  Append(order_log, [polls |-> 0, ran |-> <<>>])
            /\ order_request' =
                  Some([item_id |-> results[current_preview_index + 1],
                        aoi_polygon |->
                            IF clip_enabled
                            THEN Some(BoxRing(aoi_bounds[2], aoi_bounds[3],
                                              aoi_bounds[4], aoi_bounds[5]))
                            ELSE None,
                        grid_size_var |-> grid_size_var,
                        preview |-> current_preview_image])
            /\ ui' = "Ordering..."
    /\ UNCHANGED <<variant, restVars, results_tree, search_threads,
                   exposure_status, since_reset, tideVars, results,
                   results_before, searching, aoi_bounds, search_log,
                   previewVars>>

\* no order has been sent yet
BeforeOrder == order_request = None

\* searches, changes of the grid size, clicks on the map and previews in
\* any order up to the first order, one preview being loaded at a time
NextOrder ==
    \/ \E g \in GridOptions : BeforeOrder /\ SelectGridSize(g)
    \/ BeforeOrder /\ PerformSearch
    \/ \E c \in Centers : BeforeOrder /\ SearchDelivers(c, FoundScenes)
    \/ \E c \in Centers : BeforeOrder /\ UpdateAoiFromMap(c)
    \/ BeforeOrder /\ NoLoadInFlight /\ OnResultSelect(0)
    \/ BeforeOrder /\ NoLoadInFlight /\ TogglePreviewMode
    \/ \E k \in 1..MaxInFlight : BeforeOrder /\ PreviewThreadStart(k)
    \/ \E k \in 1..MaxInFlight : BeforeOrder /\ PreviewThreadFinish(k)
    \/ BeforeOrder /\ RunCallback
    \/ \E clip_enabled \in BOOLEAN : BeforeOrder /\ DownloadSelected(clip_enabled)

SpecOrder == Init /\ [][NextOrder]_vars

\* the area of interest the preview on display was computed from
PreviewAoi(image) == calculate_aoi(image.center, image.size \div TileSize)

\* an order was sent with a clip polygon while an AOI preview of the scene
\* ordered, made at the center of the search, was on display
ClippedOrderAtAoiPreview ==
    /\ order_request # None
    /\ order_request[1].aoi_polygon # None
    /\ order_request[1].preview # None
    /\ order_request[1].preview[1].preview_mode = "aoi"
    /\ order_request[1].preview[1].item_id = order_request[1].item_id

\* C19: the clip polygon sent with an order is the polygon of the area of
\* interest (same center, same grid size) the AOI preview on display was
\* computed from
C19_ClipIsThePreviewedAoi ==
    ClippedOrderAtAoiPreview =>
        order_request[1].aoi_polygon[1] =
            PreviewAoi(order_request[1].preview[1]).aoi

\* C20: the bounds calculate_aoi returns lie one half side either side of
\* the center (min = c - h, max = c + h, h > 0), and its polygon is the
\* closed ring (min,min), (max,min), (max,max), (min,max), (min,min) of
\* those bounds, for every grid size on offer
C20_BoundsSymmetricRingClosed ==
    aoi_bounds # None =>
        LET c == aoi_bounds[1]
            center_lat == LatMicroDeg(c)
            center_lon == LonMicroDeg(c)
        IN  /\ aoi_bounds[2] < center_lat
            /\ center_lat - aoi_bounds[2] = aoi_bounds[3] - center_lat
            /\ aoi_bounds[4] < center_lon
            /\ center_lon - aoi_bounds[4] = aoi_bounds[5] - center_lon
            /\ \A g \in GridOptions :
                  LET r == calculate_aoi(c, g)
                      b == r.aoi_bounds
                  IN  /\ b[1] = c
                      /\ b[2] < center_lat
                      /\ center_lat - b[2] = b[3] - center_lat
                      /\ b[4] < center_lon
                      /\ center_lon - b[4] = b[5] - center_lon
                      /\ r.aoi = << <<b[4], b[2]>>, <<b[5], b[2]>>,
                                    <<b[5], b[3]>>, <<b[4], b[3]>>,
                                    <<b[4], b[2]>> >>

\* a search was made with the 9x9 grid at the second place
C20_Witness ==
    /\ aoi_bounds # None
    /\ aoi_bounds = calculate_aoi(<<207, 103>>, 9).aoi_bounds
    /\ aoi_bounds[3] - aoi_bounds[2] > 0

(***************************************************************************)
(* validate_app.py.  The values a Python function returns are tagged with  *)
(* their type, so that `in` and indexing do to a tuple what Python does.   *)
(***************************************************************************)
PyTuple(items) == [py |-> "tuple", items |-> items]

PyDict(fields) == [py |-> "dict", fields |-> fields]

PyNum(x) == [py |-> "float", value |-> x]

\* key in value, for a str key: a key of the dict, an item of the tuple
PyContains(key, value) ==
    IF value.py = "dict" THEN key \in DOMAIN value.fields
    ELSE \E i \in 1..Len(value.items) :
            value.items[i].py = "str" /\ value.items[i].value = key

\* calculate_aoi of planet_imagery_browser_streamlit.py as Python returns
\* it: return aoi, (center_lat, center_lon, min_lat, ...)
streamlit_calculate_aoi(center, grid_size) ==
    LET r == calculate_aoi(center, grid_size)
        b == r.aoi_bounds
    IN  PyTuple(<< PyDict([type |-> "Polygon", coordinates |-> <<r.aoi>>]),
                   PyTuple(<< PyNum(LatMicroDeg(center)),
                              PyNum(LonMicroDeg(center)), PyNum(b[2]),
                              PyNum(b[3]), PyNum(b[4]), PyNum(b[5]) >>) >>)

\* the four assertions of test_aoi_calculation, in their order; indexing a
\* tuple with a str raises as a failed assertion does
AoiAssertionsHold(result) ==
    /\ PyContains("type", result)
    /\ result.py = "dict"
    /\ result.fields.type = "Polygon"
    /\ PyContains("coordinates", result)
    /\ Len(result.fields.coordinates) > 0

\* test_aoi_calculation: True when no assertion fails, False when the
\* except clause is entered
test_aoi_calculation(center, grid_size) ==
    AoiAssertionsHold(streamlit_calculate_aoi(center, grid_size))

str_import_test == <<"I", "m", "p", "o", "r", "t">>

str_syntax_test == <<"S", "y", "n", "t", "a", "x">>

str_aoi_calculation == <<"A", "O", "I">>

\* main(): results.append((name, test())), one test after the other; the
\* import and the syntax test pass or fail with the installation
RunTest(name, passed) ==
    /\ validation' = Append(validation, [name |-> name, passed |-> passed])
    /\ UNCHANGED <<variant, tile_math, deskVars, tideVars, results, ui, results_before,
                   searchVars, previewVars>>

RunImportTest(passed) == Len(validation) = 0 /\ RunTest(str_import_test, passed)

RunSyntaxTest(passed) == Len(validation) = 1 /\ RunTest(str_syntax_test, passed)

\* the place and the grid size of the test are those of the script or
\* others
RunAoiTest(center, grid_size) ==
    /\ Len(validation) = 2
    /\ validation' =
          Append(validation,
                 [name |-> str_aoi_calculation,
                  passed |-> test_aoi_calculation(center, grid_size),
                  center |-> center, grid_size |-> grid_size])
    /\ UNCHANGED <<variant, tile_math, deskVars, tideVars, results, ui, results_before,
                   searchVars, previewVars>>

TestPlaces == Centers \cup {Sydney}

NextValidate ==
    \/ \E passed \in BOOLEAN : RunImportTest(passed)
    \/ \E passed \in BOOLEAN : RunSyntaxTest(passed)
    \/ \E center \in TestPlaces, g \in GridOptions : RunAoiTest(center, g)

SpecValidate == Init /\ [][NextValidate]_vars

\* C21: what calculate_aoi of planet_imagery_browser_streamlit returns is
\* itself a GeoJSON object with 'type' equal to 'Polygon' and a non-empty
\* 'coordinates' array: the assertions of test_aoi_calculation hold on it,
\* whatever the center and the grid size
C21_AoiTestPasses ==
    \A i \in 1..Len(validation) :
        validation[i].name = str_aoi_calculation => validation[i].passed

\* C21, on the polygon: the first of the two values returned is such an
\* object
C21_PolygonIsFirstOfPair ==
    \A i \in 1..Len(validation) :
        validation[i].name = str_aoi_calculation =>
            LET result == streamlit_calculate_aoi(validation[i].center,
                                                  validation[i].grid_size)
            IN  /\ result.py = "tuple"
                /\ Len(result.items) = 2
                /\ AoiAssertionsHold(result.items[1])

(***************************************************************************)
(* Tile arithmetic in floating point.  x / 2**zoom * 360.0 - 180.0 and its *)
(* inverse are exact in binary64 for every zoom up to 20.  The latitude of *)
(* a tile boundary is degrees(atan(sinh(...))), and the forward projection *)
(* of that latitude comes out either at the row it started from or a few   *)
(* ulps below it, where int() then cuts it down to the row above.  The     *)
(* boundaries where that happens are tabulated from the expressions of the *)
(* source evaluated in binary64, for the boundaries of the rows of zoom 6  *)
(* and of every coarser zoom.                                              *)
(***************************************************************************)
\* rows of zoom 6 whose upper boundary is projected just short of the row
ShortRowsZoom6 ==
    {1, 4, 6, 7, 9, 14, 16, 18, 19, 22, 31, 44, 46, 49, 52, 59, 62}

\* the same boundaries as latitudes
ShortLats == {<<"lat", r * Pow2(AoiZoom - 6)>> : r \in ShortRowsZoom6}

\* mutation: the row is counted from the south
lat_lon_to_tile_from_south(lat, lon, zoom) ==
    LET unit == Pow2(AoiZoom - zoom)
        row == IF lat[2] % unit = 0 /\ lat \in ShortLats
               THEN lat[2] \div unit - 1
               ELSE lat[2] \div unit
    IN  << (lon + 180 * Pow2(AoiZoom)) \div (360 * unit),
           Pow2(zoom) - 1 - row >>

\* x_tile = int((center_lon + 180.0) / 360.0 * n) and
\* y_tile = int((1.0 - math.log(math.tan(...) + 1 / math.cos(...)) / math.pi)
\*              / 2.0 * n), for a longitude and a latitude that the two
\* conversions above have returned
lat_lon_to_tile(lat, lon, zoom) ==
    LET unit == Pow2(AoiZoom - zoom)
    IN  << (lon + 180 * Pow2(AoiZoom)) \div (360 * unit),
           IF lat[2] % unit = 0 /\ lat \in ShortLats
           THEN lat[2] \div unit - 1
           ELSE lat[2] \div unit >>

\* the zoom levels for which the boundaries are tabulated go two beyond
MaxZoom == 4

\* the top-left corner of a tile is taken to lat/lon and back
ConvertTile(zoom, x, y) ==
    /\ tile_math' =
          Some([zoom |-> zoom, x |-> x, y |-> y,
                lat |-> tile_y_to_lat(y, zoom),
                lon |-> tile_x_to_lon(x, zoom),
                back |-> lat_lon_to_tile(tile_y_to_lat(y, zoom),
                                         tile_x_to_lon(x, zoom), zoom)])
    /\ UNCHANGED <<variant, validation, deskVars, tideVars, results, ui,
                   results_before, searchVars, previewVars>>

NextTiles ==
    \E zoom \in 0..MaxZoom :
       \E x \in 0..(Pow2(zoom) - 1), y \in 0..(Pow2(zoom) - 1) :
          ConvertTile(zoom, x, y)

SpecTiles == Init /\ [][NextTiles]_vars

DisplayGridSizes == GridOptions \cup {FullGridSize, LegacyFullGridSize}

\* C23: a preview load of display grid size g asks for exactly g * g
\* distinct tiles, the center tile offset by every (dx, dy) between
\* -(g div 2) and g div 2, dy in the outer loop and dx in the inner one,
\* each tile once and no more, and the mosaic is 256 * g pixels square
C23_GridRequestedRowMajorOnce ==
    \A load \in Loads :
        LET g == load.request.display_grid_size
            tiles == load.request.tiles_to_fetch
            c == TileOf(load.request.center, load.request.zoom)
            offset == g \div 2
        IN  /\ g \in DisplayGridSizes
            /\ Len(tiles) = g * g
            /\ Cardinality({tiles[i] : i \in 1..Len(tiles)}) = g * g
            /\ {tiles[i] : i \in 1..Len(tiles)} =
                  {<<c[1] + dx, c[2] + dy>> :
                      dx \in (-offset)..offset, dy \in (-offset)..offset}
            /\ \A i \in 1..Len(tiles) :
                  tiles[i] = << c[1] + ((i - 1) % g) - offset,
                                c[2] + ((i - 1) \div g) - offset >>
            /\ Len(load.outcome) = g * g
            /\ Len(load.tile_images) = g * g
            /\ load.image # None => load.image[1].size = 256 * g

\* a full-scene mosaic was made, 3840 pixels square, after a request that
\* went wrong
C23_Witness ==
    \E load \in Loads :
        /\ load.request.preview_mode = "full"
        /\ load.request.display_grid_size = FullGridSize
        /\ load.image # None
        /\ load.image[1].size = 3840
        /\ \E i \in 1..Len(load.outcome) : load.outcome[i] # "200"

(***************************************************************************)
(* The desktop window step by step.  A search thread computes the AOI,     *)
(* queries the catalog, empties self.results, appends the scenes one by    *)
(* one and hands _update_results_ui to the main loop; the handlers of the  *)
(* window run between any two of these steps.                              *)
(***************************************************************************)

\* what a desktop handler or a step of a search thread leaves alone
deskRest == <<variant, restVars, tideVars, results_before, search_log,
              order_request, download_btn, order_threads, order_log,
              since_reset, tile_server, grid_size_var, preview_mode,
              current_preview_image, current_preview_bounds,
              preview_info_label, preview_threads, saved, last_loaded>>

\* _search_thread up to self.aoi_bounds = aoi_bounds, the center entries
\* being numbers
SearchThreadAoi(k, center) ==
    /\ variant \in {"app", "legacy"}
    /\ k \in 1..Len(search_threads)
    /\ search_threads[k].pc = "start"
    /\ aoi_bounds' = calculate_aoi(center, grid_size_var).aoi_bounds
    /\ search_threads' = [search_threads EXCEPT ![k].pc = "query"]
    /\ UNCHANGED <<deskRest, results, results_tree, searching,
                   exposure_status, current_preview_index, after_queue, ui>>

\* _search_thread when a center entry is no number: calculate_aoi shows
\* the Input Error box and returns (None, None), and the thread returns
SearchThreadReturns(k) ==
    /\ variant \in {"app", "legacy"}
    /\ k \in 1..Len(search_threads)
    /\ search_threads[k].pc = "start"
    /\ search_threads' = RemoveAt(search_threads, k)
    /\ ui' = "Input Error"
    /\ UNCHANGED <<deskRest, results, results_tree, searching, aoi_bounds,
                   exposure_status, current_preview_index, after_queue>>

\* _search_thread: the dates are parsed, the filters built and the catalog
\* asked; self.results = [] is executed and the scenes found wait to be
\* appended
SearchThreadQuery(k, rs) ==
    /\ variant \in {"app", "legacy"}
    /\ k \in 1..Len(search_threads)
    /\ search_threads[k].pc = "query"
    /\ results' = <<>>
    /\ search_threads' =
          [search_threads EXCEPT ![k] = [pc |-> "collect", found |-> rs]]
    /\ UNCHANGED <<deskRest, results_tree, searching, aoi_bounds,
                   exposure_status, current_preview_index, after_queue, ui>>

\* _search_thread: one turn of the loop, self.results.append(item)
SearchThreadAppend(k) ==
    /\ variant \in {"app", "legacy"}
    /\ k \in 1..Len(search_threads)
    /\ search_threads[k].pc = "collect"
    /\ search_threads[k].found # <<>>
    /\ results' = Append(results, Head(search_threads[k].found))
    /\ search_threads' =
          [search_threads EXCEPT ![k].found = Tail(search_threads[k].found)]
    /\ UNCHANGED <<deskRest, results_tree, searching, aoi_bounds,
                   exposure_status, current_preview_index, after_queue, ui>>

\* _search_thread: the loop is over, _update_results_ui is handed to the
\* main loop and the thread ends
SearchThreadPost(k) ==
    /\ variant \in {"app", "legacy"}
    /\ k \in 1..Len(search_threads)
    /\ search_threads[k].pc = "collect"
    /\ search_threads[k].found = <<>>
    /\ after_queue' = Append(after_queue, [kind |-> "_update_results_ui"])
    /\ search_threads' = RemoveAt(search_threads, k)
    /\ UNCHANGED <<deskRest, results, results_tree, searching, aoi_bounds,
                   exposure_status, current_preview_index, ui>>

\* _search_thread: a date entry that does not parse, or the service
\* failing at the query or at a later page, raises; the thread hands
\* lambda: self._search_error(str(e)) to the main loop and ends.  The name
\* e is unbound when the except clause is left, so the lambda finds it
\* only if the main loop runs it before the thread gets that far: e_bound
\* says which of the two happens
SearchThreadRaises(k, e_bound) ==
    /\ variant \in {"app", "legacy"}
    /\ k \in 1..Len(search_threads)
    /\ search_threads[k].pc \in {"query", "collect"}
    /\ after_queue' = Append(after_queue, [kind |-> "_search_error",
                                          e_bound |-> e_bound])
    /\ search_threads' = RemoveAt(search_threads, k)
    /\ UNCHANGED <<deskRest, results, results_tree, searching, aoi_bounds,
                   exposure_status, current_preview_index, ui>>

\* the main loop runs _update_results_ui: the table is filled from
\* self.results and the Search button set to normal; the legacy browser
\* empties exposure_status first
UpdateResultsUi ==
    /\ after_queue # <<>>
    /\ Head(after_queue).kind = "_update_results_ui"
    /\ after_queue' = Tail(after_queue)
    /\ results_tree' = results
    /\ exposure_status' =
          IF variant = "legacy" THEN EmptyDict ELSE exposure_status
    /\ searching' = FALSE
    /\ ui' = IF results = <<>> THEN "No Results" ELSE "Search Complete"
    /\ UNCHANGED <<deskRest, results, search_threads, aoi_bounds,
                   current_preview_index>>

\* the main loop runs the lambda of the except clause: _search_error if
\* e is still bound, a NameError raised in the callback otherwise
SearchError ==
    /\ after_queue # <<>>
    /\ Head(after_queue).kind = "_search_error"
    /\ after_queue' = Tail(after_queue)
    /\ IF Head(after_queue).e_bound
       THEN /\ searching' = FALSE
            /\ ui' = "Search Error"
       ELSE UNCHANGED <<searching, ui>>
    /\ UNCHANGED <<deskRest, results, results_tree, search_threads,
                   aoi_bounds, exposure_status, current_preview_index>>

\* show_previous and show_next of the app
ShowPrevious ==
    /\ variant \in {"app", "legacy"}
    /\ RoomForPreview
    /\ IF current_preview_index > 0
       THEN /\ current_preview_index' = current_preview_index - 1
            /\ ShowPreview(current_preview_index')
       ELSE UNCHANGED <<current_preview_index, preview_info_label,
                        preview_threads>>
    /\ UNCHANGED <<variant, restVars, deskVars, tideVars, results, ui,
                   results_before, searchVars, grid_size_var, preview_mode,
                   current_preview_image, current_preview_bounds,
                   after_queue, saved, last_loaded, tile_server>>

ShowNext ==
    /\ variant \in {"app", "legacy"}
    /\ RoomForPreview
    /\ IF current_preview_index < Len(results) - 1
       THEN /\ current_preview_index' = current_preview_index + 1
            /\ ShowPreview(current_preview_index')
       ELSE UNCHANGED <<current_preview_index, preview_info_label,
                        preview_threads>>
    /\ UNCHANGED <<variant, restVars, deskVars, tideVars, results, ui,
                   results_before, searchVars, grid_size_var, preview_mode,
                   current_preview_image, current_preview_bounds,
                   after_queue, saved, last_loaded, tile_server>>

\* the tide file and the catalog answers offered to the window
WindowFiles ==
    { CsvFile(HeaderUtc, <<<<IsoZCell(Y0, M0, D0, 10, 0, 0), NumCell(87)>>>>) }

WindowLists == {<<>>, <<UnderscoreId(Y0, M0, D0, 10, 0, 0)>>}

\* a search can be started while fewer than MaxSearchThreads searches are
\* under way, threads and callbacks not yet run counted together
RoomForSearch == Len(search_threads) + Len(after_queue) < MaxSearchThreads

\* searches step by step, with the Sort by Tide and Reset buttons used in
\* between; no row is selected
NextWindow ==
    \/ \E f \in WindowFiles : tide_file_loaded = None /\ LoadTideData(f)
    \/ \E f \in WindowFiles : tide_file_loaded = None /\ LegacyLoadTideData(f)
    \/ RoomForSearch /\ PerformSearch
    \/ \E k \in 1..MaxSearchThreads : SearchThreadAoi(k, SortCenter)
    \/ \E k \in 1..MaxSearchThreads : SearchThreadReturns(k)
    \/ \E k \in 1..MaxSearchThreads, rs \in WindowLists :
          SearchThreadQuery(k, rs)
    \/ \E k \in 1..MaxSearchThreads : SearchThreadAppend(k)
    \/ \E k \in 1..MaxSearchThreads : SearchThreadPost(k)
    \/ \E k \in 1..MaxSearchThreads, e_bound \in BOOLEAN :
          SearchThreadRaises(k, e_bound)
    \/ UpdateResultsUi
    \/ SearchError
    \/ SortByTide
    \/ ResetSearch

SpecWindow == Init /\ [][NextWindow]_vars

\* a search is under way: a thread runs or its callback waits in the main
\* loop
SearchUnderWay ==
    \/ search_threads # <<>>
    \/ \E i \in 1..Len(after_queue) :
          after_queue[i].kind \in {"_update_results_ui", "_search_error"}

\* C24: at most one search thread runs at any time, and while a search is
\* under way (its thread running or its callback not yet run) the Search
\* button is disabled, whatever handlers of the window run in between
C24_OneSearchButtonDisabled ==
    /\ Len(search_threads) <= 1
    /\ SearchUnderWay => searching

\* one step of the search thread at place k of the running threads
SearchThreadStep(k) ==
    \/ SearchThreadAoi(k, SortCenter)
    \/ SearchThreadReturns(k)
    \/ \E rs \in WindowLists : SearchThreadQuery(k, rs)
    \/ SearchThreadAppend(k)
    \/ SearchThreadPost(k)
    \/ \E e_bound \in BOOLEAN : SearchThreadRaises(k, e_bound)

\* the window with its scheduling: a thread that can take a step takes one
\* in the end, and the main loop runs the callbacks handed to it; nothing
\* is required of the user
SpecWindowFair ==
    /\ Init
    /\ [][NextWindow]_vars
    /\ \A k \in 1..MaxSearchThreads : WF_vars(SearchThreadStep(k))
    /\ WF_vars(UpdateResultsUi)
    /\ WF_vars(SearchError)

\* C25: every search comes to an end that sets the Search button back to
\* normal: whenever the button is disabled it is normal again later, be it
\* after results, after an error of the service or of a date entry, or
\* after center entries that are no numbers
C25_SearchButtonNormalAgain == searching ~> ~searching

\* C28: after Reset the result list and the results table are empty and
\* stay empty until the next search is started, also when a search thread
\* was running at the time of the reset
C28_EmptyAfterReset ==
    since_reset => results = <<>> /\ results_tree = <<>>

\* the catalog answer offered when rows are selected
BrowseLists ==
    { <<UnderscoreId(Y0, M0, D0, 10, 20, 0),
        UnderscoreId(Y0, M0, D0, 10, 0, 0)>> }

\* searches step by step in the app, with Sort by Tide used once and with
\* rows selected and Next and Previous used in between; the previews
\* asked for are not followed
NextBrowse ==
    \/ \E f \in WindowFiles : tide_file_loaded = None /\ LoadTideData(f)
    \/ variant = "app" /\ RoomForSearch /\ PerformSearch
    \/ \E k \in 1..MaxSearchThreads : SearchThreadAoi(k, SortCenter)
    \/ \E k \in 1..MaxSearchThreads, rs \in BrowseLists :
          SearchThreadQuery(k, rs)
    \/ \E k \in 1..MaxSearchThreads : SearchThreadAppend(k)
    \/ \E k \in 1..MaxSearchThreads : SearchThreadPost(k)
    \/ UpdateResultsUi
    \/ results_before = None /\ SortByTide
    \/ \E index \in 0..1 : OnResultSelect(index)
    \/ ShowNext
    \/ ShowPrevious

SpecBrowse == Init /\ [][NextBrowse]_vars

\* C29: in the app, whenever there are results the index of the preview
\* lies within them, 0 <= current_preview_index < len(results), whatever
\* searches, row selections, Next, Previous, sorts and resets have run
C29_IndexWithinResults ==
    variant = "app" /\ results # <<>> =>
        current_preview_index >= 0 /\ current_preview_index < Len(results)

(***************************************************************************)
(* Exposure marking of the legacy browser.                                 *)
(***************************************************************************)

\* mark_current_exposure: the scene on display is marked, the table is
\* refreshed and, unless the scene is the last one, show_next is called
MarkCurrentExposure(is_exposed) ==
    /\ variant = "legacy"
    /\ IF ~ValidIndex(current_preview_index)
       THEN UNCHANGED <<exposure_status, current_preview_index,
                        preview_info_label, preview_threads>>
       ELSE /\ exposure_status' =
                  DictPut(exposure_status, results[current_preview_index + 1],
                          IF is_exposed THEN "Exposed" ELSE "Not Exposed")
            /\ IF current_preview_index < Len(results) - 1
               THEN /\ RoomForPreview
                    /\ current_preview_index' = current_preview_index + 1
                    /\ ShowPreview(current_preview_index')
               ELSE UNCHANGED <<current_preview_index, preview_info_label,
                                preview_threads>>
    /\ UNCHANGED <<variant, restVars, results_tree, search_threads,
                   download_btn, order_threads, since_reset, order_log,
                   tideVars, results, ui, results_before, searchVars,
                   grid_size_var, preview_mode, current_preview_image,
                   current_preview_bounds, after_queue, saved, last_loaded,
                   tile_server>>

\* clear_exposure_status with the rows of the set selection selected
\* (rows counted from 1)
ClearExposureStatus(selection) ==
    /\ variant = "legacy"
    /\ selection \subseteq 1..Len(results_tree)
    /\ IF selection = {}
       THEN /\ ui' = "No Selection"
            /\ UNCHANGED exposure_status
       ELSE /\ exposure_status' =
                  [x \in (DOMAIN exposure_status)
                           \ {results_tree[i] : i \in selection} |->
                      exposure_status[x]]
            /\ ui' = "Status Cleared"
    /\ UNCHANGED <<variant, restVars, results_tree, search_threads,
                   download_btn, order_threads, since_reset, order_log,
                   tideVars, results, results_before, searchVars,
                   previewVars>>

\* the catalog answers offered when scenes are marked
ExposureLists ==
    { <<UnderscoreId(Y0, M0, D0, 10, 20, 0),
        UnderscoreId(Y0, M0, D0, 10, 0, 0)>>,
      <<UnderscoreId(Y0, M0, D0, 10, 0, 0)>> }

\* the legacy browser: searches, one tide file, marks on the scene on
\* display, Clear Status and Sort by Tide
NextExposure ==
    \/ \E f \in SortFiles : tide_file_loaded = None /\ LegacyLoadTideData(f)
    \/ variant = "legacy" /\ PerformSearch
    \/ \E rs \in ExposureLists : variant = "legacy" /\ SearchDelivers(SortCenter, rs)
    \/ \E is_exposed \in BOOLEAN : MarkCurrentExposure(is_exposed)
    \/ \E selection \in SUBSET (1..2) : ClearExposureStatus(selection)
    \/ variant = "legacy" /\ SortByTide

SpecExposure == Init /\ [][NextExposure]_vars

\* C27: sort_by_tide of the legacy browser changes only the order of the
\* results: the exposure status recorded for every item id is the same
\* after the sort as before it
C27_SortKeepsExposureStatus ==
    [][SortByTide => exposure_status' = exposure_status]_vars

(***************************************************************************)
(* Orders of the app step by step.  order_log keeps, for every order       *)
(* started, the number of polls made and the callbacks that have run.      *)
(***************************************************************************)

\* max_wait and check_interval of the polling loop, in seconds
MaxWait == 600

CheckInterval == 10

\* the states get_order answers with
OrderStates == {"queued", "running", "success", "failed", "cancelled",
                "partial"}

\* what the steps of an order thread and the order callbacks leave alone
orderRest == <<variant, restVars, tideVars, results, results_before,
               searchVars, results_tree, search_threads, exposure_status,
               since_reset, tile_server, grid_size_var, preview_mode,
               current_preview_index, current_preview_image,
               current_preview_bounds, preview_info_label, preview_threads,
               saved, last_loaded>>

\* _order_and_download_thread: the request is built, create_order answers
\* and the loop is entered with elapsed = 0
OrderThreadCreate(k) ==
    /\ k \in 1..Len(order_threads)
    /\ order_threads[k].pc = "create"
    /\ order_threads' = [order_threads EXCEPT ![k].pc = "poll"]
    /\ UNCHANGED <<orderRest, download_btn, order_log, after_queue, ui>>

\* one turn of the polling loop: get_order answers with state; on success
\* the files are downloaded and _download_complete is handed to the main
\* loop, on failed, cancelled and partial _download_error is, and in both
\* cases the thread returns; on any other state the thread sleeps
\* check_interval seconds
OrderThreadPoll(k, state) ==
    /\ k \in 1..Len(order_threads)
    /\ order_threads[k].pc = "poll"
    /\ order_threads[k].elapsed < MaxWait
    /\ order_log' = [order_log EXCEPT ![order_threads[k].id].polls = @ + 1]
    /\ IF state = "success"
       THEN /\ after_queue' =
                  Append(after_queue, [kind |-> "_download_complete",
                                       id |-> order_threads[k].id])
            /\ order_threads' = RemoveAt(order_threads, k)
       ELSE IF state \in {"failed", "cancelled", "partial"}
       THEN /\ after_queue' =
                  Append(after_queue, [kind |-> "_download_error",
                                       id |-> order_threads[k].id,
                                       e_bound |-> TRUE])
            /\ order_threads' = RemoveAt(order_threads, k)
       ELSE /\ order_threads' =
                  [order_threads EXCEPT ![k].elapsed = @ + CheckInterval]
            /\ UNCHANGED after_queue
    /\ UNCHANGED <<orderRest, download_btn, ui>>

\* the loop is left with elapsed >= max_wait: the order timed out
OrderThreadTimeout(k) ==
    /\ k \in 1..Len(order_threads)
    /\ order_threads[k].pc = "poll"
    /\ order_threads[k].elapsed >= MaxWait
    /\ after_queue' =
          Append(after_queue, [kind |-> "_download_error",
                               id |-> order_threads[k].id,
                               e_bound |-> TRUE])
    /\ order_threads' = RemoveAt(order_threads, k)
    /\ UNCHANGED <<orderRest, download_btn, order_log, ui>>

\* create_order, get_order or the download raises: the except clause hands
\* lambda: self._download_error(f"{str(e)}...") to the main loop and the
\* thread ends; as in _search_thread the lambda finds e only if it is run
\* before the except clause is left
OrderThreadRaises(k, e_bound) ==
    /\ k \in 1..Len(order_threads)
    /\ \/ order_threads[k].pc = "create"
       \/ order_threads[k].pc = "poll" /\ order_threads[k].elapsed < MaxWait
    /\ after_queue' =
          Append(after_queue, [kind |-> "_download_error",
                               id |-> order_threads[k].id,
                               e_bound |-> e_bound])
    /\ order_threads' = RemoveAt(order_threads, k)
    /\ UNCHANGED <<orderRest, download_btn, order_log, ui>>

\* the main loop runs _download_complete
DownloadComplete ==
    /\ after_queue # <<>>
    /\ Head(after_queue).kind = "_download_complete"
    /\ after_queue' = Tail(after_queue)
    /\ download_btn' = "normal"
    /\ order_log' = [order_log EXCEPT ![Head(after_queue).id].ran =
                        Append(@, "_download_complete")]
    /\ ui' = "Download Complete"
    /\ UNCHANGED <<orderRest, order_threads>>

\* the main loop runs the callback of a failed order: _download_error, or
\* a NameError raised by the lambda of the except clause
DownloadError ==
    /\ after_queue # <<>>
    /\ Head(after_queue).kind = "_download_error"
    /\ after_queue' = Tail(after_queue)
    /\ IF Head(after_queue).e_bound
       THEN /\ download_btn' = "normal"
            /\ order_log' = [order_log EXCEPT ![Head(after_queue).id].ran =
                                Append(@, "_download_error")]
            /\ ui' = "Download Error"
       ELSE UNCHANGED <<download_btn, order_log, ui>>
    /\ UNCHANGED <<orderRest, order_threads>>

\* the answers of get_order offered when several orders are followed: the
\* first poll ends the order
EndStates == {"success", "failed"}

\* the app after one search: rows are selected and orders started, and the
\* order threads run step by step; the previews asked for are not followed
NextOrders ==
    \/ variant = "app" /\ results = <<>> /\ PerformSearch
    \/ variant = "app" /\ SearchDelivers(SortCenter, FoundScenes)
    \/ variant = "app" /\ OnResultSelect(0)
    \/ \E clip_enabled \in BOOLEAN : DownloadSelected(clip_enabled)
    \/ \E k \in 1..MaxOrders : OrderThreadCreate(k)
    \/ \E k \in 1..MaxOrders, state \in EndStates : OrderThreadPoll(k, state)
    \/ \E k \in 1..MaxOrders, e_bound \in BOOLEAN :
          OrderThreadRaises(k, e_bound)
    \/ DownloadComplete
    \/ DownloadError

SpecOrders == Init /\ [][NextOrders]_vars

\* an order is under way: its thread runs or its callback waits in the
\* main loop
OrderUnderWay ==
    \/ order_threads # <<>>
    \/ \E i \in 1..Len(after_queue) :
          after_queue[i].kind \in {"_download_complete", "_download_error"}

\* C26: at most one order thread runs at any time, and from the start of
\* an order until its _download_complete or _download_error has run the
\* Download button is disabled, whatever rows are selected in between
C26_OneOrderButtonDisabled ==
    /\ Len(order_threads) <= 1
    /\ OrderUnderWay => download_btn = "disabled"

\* one step of the order thread at place k of the running threads
OrderThreadStep(k) ==
    \/ OrderThreadCreate(k)
    \/ \E state \in OrderStates : OrderThreadPoll(k, state)
    \/ OrderThreadTimeout(k)
    \/ \E e_bound \in BOOLEAN : OrderThreadRaises(k, e_bound)

\* no order is under way
NoOrderUnderWay ==
    /\ order_threads = <<>>
    /\ \A i \in 1..Len(after_queue) :
          after_queue[i].kind \notin {"_download_complete", "_download_error"}

\* the answers of get_order offered: every state to the first order, the
\* states that end an order to the later ones
PollStates == IF Len(order_log) <= 1 THEN OrderStates ELSE EndStates

\* the app after one search: the scene is selected and orders are started
\* one after the other, each followed from create_order to its callback
NextPoll ==
    \/ variant = "app" /\ results = <<>> /\ PerformSearch
    \/ variant = "app" /\ SearchDelivers(SortCenter, FoundScenes)
    \/ variant = "app" /\ NoOrderUnderWay /\ OnResultSelect(0)
    \/ \E clip_enabled \in BOOLEAN :
          NoOrderUnderWay /\ DownloadSelected(clip_enabled)
    \/ \E k \in 1..MaxOrders : OrderThreadCreate(k)
    \/ \E k \in 1..MaxOrders, state \in PollStates :
          OrderThreadPoll(k, state)
    \/ \E k \in 1..MaxOrders : OrderThreadTimeout(k)
    \/ \E k \in 1..MaxOrders, e_bound \in BOOLEAN :
          OrderThreadRaises(k, e_bound)
    \/ DownloadComplete
    \/ DownloadError

\* ... with its scheduling: create_order, get_order and the download
\* return or raise, so a running thread takes its next step in the end,
\* and the main loop runs the callbacks handed to it
SpecPoll ==
    /\ Init
    /\ [][NextPoll]_vars
    /\ \A k \in 1..MaxOrders : WF_vars(OrderThreadStep(k))
    /\ WF_vars(DownloadComplete)
    /\ WF_vars(DownloadError)

\* C30: every order started comes to its end: after at most 60 polls
\* exactly one of _download_complete and _download_error has run for it
\* and has set the Download button back to normal, whether the order
\* succeeded, failed, timed out or an exception was raised
C30_OrderEndsWithOneCallback ==
    \A i \in 1..MaxOrders :
        (Len(order_log) >= i) ~>
            (/\ Len(order_log) >= i
             /\ Len(order_log[i].ran) = 1
             /\ order_log[i].polls <= MaxWait \div CheckInterval)

====
